---- MODULE Spec2Model ----
(***************************************************************************)
(* A model of the download core of the btrs BitTorrent client:             *)
(*   - the peer wire message codec (torrent/peer_session/message.rs),      *)
(*   - the piece work model       (torrent/peer_session/work.rs),          *)
(*   - one peer session           (torrent/peer_session.rs),               *)
(*   - the peer-list decoder      (torrent.rs),                            *)
(*   - the tracker session and the announce task (tracker.rs, torrent.rs), *)
(*   - the tracker request and its query string (tracker.rs),             *)
(*   - the file tree of a torrent  (torrent/files.rs).                     *)
(*                                                                         *)
(* Byte strings are sequences over 0..255.  A u32 is a natural number;     *)
(* the values drawn stay below 2^31, the largest integer TLC represents.   *)
(* Results of fallible Rust functions are records tagged "Ok" or "Err";    *)
(* a Rust panic (an out-of-range slice, a read past the end of a buffer)   *)
(* is the third outcome, tagged "Panic".                                   *)
(***************************************************************************)
EXTENDS Naturals, Integers, Sequences, FiniteSets, TLC

VARIABLES
    \* ---- codec harness (message.rs tests::round_trip, read_message) ----
    codecPc,      \* "input" | "encoded" | "decoded"
    original,     \* the MessageType value under test, or NoMsg
    frame,        \* the bytes on the wire
    parsed,       \* the result of decoding `frame`, or NoResult
    \* ---- PeerState::has_piece harness (peer_session.rs:44-51) ----
    hpPc,         \* "input" | "done"
    hpBitfield,   \* PeerState.bitfield
    hpIndex,      \* piece_index
    hpResult,     \* Ok(TRUE), Ok(FALSE) or Panic; NoResult before the call
    \* ---- peer-list decoder harness (torrent.rs:43-67) ----
    plPc,         \* "input" | "done"
    peers_enum,   \* the tracker response's `peers` field, a PeersEnum
    peer_list,    \* the Vec<Peer> it converts to
    \* ---- one peer session (peer_session.rs) ----
    startPc,            \* the position of PeerSession::start
    start_result,       \* what start returned: Ok, an Err, or NoResult so far
    socket,             \* "none" | "open" | "closed": the TCP stream of the session
    handshake_response, \* the 68 bytes read_handshake returned, <<>> before
    wire,               \* every byte the session wrote to the peer, in order
    peer_state,         \* the shared PeerState record (behind its mutex)
    listenerPc,         \* "none" | "running" | "panicked" | "returned"
    block_rx,           \* the listener-to-requester channel of BlockResponse
    requesterPc,        \* "none" | "snapshot" | "fetch" | "work" | "panicked"
    state,              \* the requester's clone of peer_state for this iteration
    piece_work,         \* the requester's Option<PieceWork>
    piece_queue,        \* the shared VecDeque<PieceRequest>
    piece_tx,           \* the result channel of PieceResponse
    outstanding,        \* peer side: the Requests received and not yet answered
    peer_reorders,      \* peer side: TRUE if it answers Requests in any order,
                        \* FALSE if it answers them in the order of their offsets
    delivered,          \* offsets of the block responses drained for the current piece
    out_of_order,       \* a response was drained while a lower block was not Full
    \* ---- the announce task of Torrent::start (torrent.rs:115-143) ----
    annPc,        \* "check" | "update" | "awaiting" | "sleeping" | "returned"
    clock,        \* the time, in seconds, of the latest clock reading
    tracker,      \* the TrackerSession behind its mutex
    wait_time,    \* the deadline the loop computed for sleep_until
    announces,    \* number of announce requests issued so far
    last,         \* the latest finished announce: its outcome and its clock readings
    sent,         \* the TrackerRequests issued so far, in order
    \* ---- the torrent controller: Torrent::start and its tasks (torrent.rs) ----
    calls_left,      \* calls of Torrent::start the application still makes
    tracker_peers,   \* the peer list the tracker answers with
    peers_respond,   \* whether the peers of that list answer connection attempts
    metainfo,        \* piece_length and total length of the torrent
    started,         \* TrackerSession.started
    known_peers,     \* TrackerSession.peer_list
    tracker_lock,    \* 0, or the announce task that holds the tracker session mutex
    announcers,      \* per start call: "check" | "loop" | "in_flight" | "returned"
    work_queues,     \* per start call: the work queue it created
    result_channels, \* per start call: the result channel it created
    piece_managers,  \* per start call: "waiting" (in results.recv()) | "stopped"
    reconcilers,     \* per start call: "running" | "stopped"
    active_peers,    \* per start call: the keys of the active-peers map
    sessions,        \* per start call: peer -> "connecting" | "failed" |
                     \*   "established" | "broken", its latest session
    reconciler_locks, \* per start call: where its reconciler is in its loop
                     \*   and the mutexes it holds, in the order it took them
    \* ---- Torrent::load (torrent.rs:71-111) ----
    loadPc,          \* "input" | "done"
    torrent_bytes,   \* the bytes of the .torrent file
    load_result,     \* Ok with the info hash stored, or Err; NoResult before
    \* ---- PieceManager::run next to one peer session (piece_manager.rs) ----
    pm_got,          \* the PieceResponses the piece manager has received, in order
    \* ---- FileEntry::insert_path (files.rs) ----
    root,            \* the FileEntry the paths are inserted into
    path,            \* the path of the latest insert_path call
    insert_result,   \* what that call returned, NoResult before the first
    inserts,         \* number of insert_path calls so far
    \* ---- TrackerRequest::to_query_string (tracker.rs:134-141) ----
    request,         \* the TrackerRequest under test
    query_string,    \* the String it returned
    \* ---- the messages one peer_listener has processed ----
    heard,           \* what arrived so far: see NothingHeard
    \* ---- the requesters of several sessions on one work queue ----
    queue_lock,      \* 0, or the requester that holds the work-queue mutex
    requesters       \* per requester: its place in the loop, the bitfield of
                     \*   its snapshot, the piece it is reporting

codecVars == <<codecPc, original, frame, parsed>>
hpVars    == <<hpPc, hpBitfield, hpIndex, hpResult>>
plVars    == <<plPc, peers_enum, peer_list>>

startVars == <<startPc, start_result, handshake_response>>
listVars  == <<peer_state, listenerPc, block_rx>>
reqVars   == <<requesterPc, state, piece_work, piece_queue, piece_tx, delivered, out_of_order>>
sessVars  == <<startVars, socket, wire, listVars, reqVars, outstanding, peer_reorders>>

annVars   == <<annPc, clock, tracker, wait_time, announces, last, sent>>
torVars   == <<calls_left, tracker_peers, peers_respond, metainfo, started, known_peers,
               tracker_lock, announcers, work_queues, result_channels, piece_managers,
               reconcilers, active_peers, sessions, reconciler_locks>>
loadVars  == <<loadPc, torrent_bytes, load_result>>
fileVars  == <<root, path, insert_result, inserts>>
queryVars == <<request, query_string>>
lockVars  == <<queue_lock, requesters>>
moreVars  == <<fileVars, queryVars, heard, lockVars>>
ctlVars   == <<annVars, torVars, loadVars, pm_got, moreVars>>

vars == <<codecVars, hpVars, plVars, sessVars, ctlVars>>

nonCodecVars == <<hpVars, plVars, sessVars, ctlVars>>
nonHpVars    == <<codecVars, plVars, sessVars, ctlVars>>
nonPlVars    == <<codecVars, hpVars, sessVars, ctlVars>>
nonSessVars  == <<codecVars, hpVars, plVars, ctlVars>>
nonAnnVars   == <<codecVars, hpVars, plVars, sessVars, torVars, loadVars, pm_got, moreVars>>
nonTorVars   == <<codecVars, hpVars, plVars, sessVars, annVars, loadVars, pm_got, moreVars>>
nonLoadVars  == <<codecVars, hpVars, plVars, sessVars, annVars, torVars, pm_got, moreVars>>
restVars     == <<peer_reorders, nonSessVars>>

\* ------------------------------------------------------------------------
\* Bounds of the model
\* ------------------------------------------------------------------------

\* Longest Bitfield payload / Piece block drawn as a codec input.
MaxPayload == 2

\* Longest bitfield (in bytes) drawn as a has_piece input.
MaxBitfieldLen == 2

\* Largest number of entries of a tracker peers field drawn as an input.
MaxPeerEntries == 2

\* ------------------------------------------------------------------------
\* Bytes and integers
\* ------------------------------------------------------------------------

Byte == 0..255

\* u32::to_le_bytes: the little-endian order, least significant byte first
U32ToLeBytes(n) ==
    << n % 256, (n \div 256) % 256, (n \div 65536) % 256, (n \div 16777216) % 256 >>

\* u32::to_be_bytes
U32ToBeBytes(n) ==
    << (n \div 16777216) % 256, (n \div 65536) % 256, (n \div 256) % 256, n % 256 >>

\* u16::to_be_bytes
U16ToBeBytes(n) == << (n \div 256) % 256, n % 256 >>

\* Buf::get_u32 / u32::from_be_bytes on the first four bytes of b
GetU32(b) == ((b[1] * 256 + b[2]) * 256 + b[3]) * 256 + b[4]

\* Buf::get_u16 / u16::from_be_bytes on the first two bytes of b
GetU16(b) == b[1] * 256 + b[2]

\* b[n..] : the buffer after the cursor advanced by n bytes
Advance(b, n) == SubSeq(b, n + 1, Len(b))

\* b[..n] : the first n bytes
Prefix(b, n) == SubSeq(b, 1, n)

\* ------------------------------------------------------------------------
\* MessageType (message.rs:5-29)
\* ------------------------------------------------------------------------

Choke         == [type |-> "Choke"]
Unchoke       == [type |-> "Unchoke"]
Interested    == [type |-> "Interested"]
NotInterested == [type |-> "NotInterested"]
KeepAlive     == [type |-> "KeepAlive"]
Have(i)       == [type |-> "Have", index |-> i]
Bitfield(b)   == [type |-> "Bitfield", bitfield |-> b]
Request(i, b, l) == [type |-> "Request", index |-> i, begin |-> b, length |-> l]
Piece(i, b, d)   == [type |-> "Piece", index |-> i, begin |-> b, block |-> d]
Cancel(i, b, l)  == [type |-> "Cancel", index |-> i, begin |-> b, length |-> l]
Port(p)       == [type |-> "Port", port |-> p]

NoMsg    == [type |-> "none"]
NoResult == [tag |-> "none"]
Ok(m)    == [tag |-> "Ok", val |-> m]
Err      == [tag |-> "Err"]
Panic    == [tag |-> "Panic"]

\* MessageType::to_bytes
to_bytes(m) ==
    CASE m.type = "Choke" -> U32ToBeBytes(1) \o <<0>>
      [] m.type = "Unchoke" -> U32ToBeBytes(1) \o <<1>>
      [] m.type = "Interested" -> U32ToBeBytes(1) \o <<2>>
      [] m.type = "NotInterested" -> U32ToBeBytes(1) \o <<3>>
      [] m.type = "Have" -> U32ToBeBytes(5) \o <<4>> \o U32ToBeBytes(m.index)
      [] m.type = "Bitfield" ->
            U32ToBeBytes(Len(m.bitfield) + 1) \o <<5>> \o m.bitfield
      [] m.type = "Request" ->
            U32ToBeBytes(13) \o <<6>> \o U32ToBeBytes(m.index)
                \o U32ToBeBytes(m.begin) \o U32ToBeBytes(m.length)
      [] m.type = "Piece" ->
            U32ToBeBytes(9 + Len(m.block)) \o <<7>> \o U32ToBeBytes(m.index)
                \o U32ToBeBytes(m.begin) \o m.block
      [] m.type = "Cancel" ->
            U32ToBeBytes(13) \o <<8>> \o U32ToBeBytes(m.index)
                \o U32ToBeBytes(m.begin) \o U32ToBeBytes(m.length)
      [] m.type = "Port" -> U32ToBeBytes(3) \o <<9>> \o U16ToBeBytes(m.port)
      [] m.type = "KeepAlive" -> U32ToBeBytes(0)

\* A Bitfield payload that keeps the id byte in its length: len instead of len - 1
BitfieldPayloadLenOffByOne(len) == len

\* len as usize - 1 : the number of payload bytes of a Bitfield frame
BitfieldPayloadLen(len) == len - 1

\* len as usize - 9 : the number of block bytes of a Piece frame
PieceBlockLen(len) == len - 9

\* The part of MessageType::from_bytes after the id byte was read: `rest` is
\* the buffer behind the id, `len` the length the caller passed.
DecodeBody(idx, rest, len) ==
    CASE idx = 0 -> Ok(Choke)
      [] idx = 1 -> Ok(Unchoke)
      [] idx = 2 -> Ok(Interested)
      [] idx = 3 -> Ok(NotInterested)
      [] idx = 4 ->
            IF Len(rest) < 4 THEN Panic ELSE Ok(Have(GetU32(rest)))
      [] idx = 5 ->
            \* bytes[..(len as usize - 1)]
            IF len < 1 \/ BitfieldPayloadLen(len) > Len(rest) THEN Panic
            ELSE Ok(Bitfield(Prefix(rest, BitfieldPayloadLen(len))))
      [] idx = 6 ->
            IF Len(rest) < 12 THEN Panic
            ELSE Ok(Request(GetU32(rest), GetU32(Advance(rest, 4)),
                            GetU32(Advance(rest, 8))))
      [] idx = 7 ->
            \* two get_u32, then bytes[..(len as usize - 9)]
            IF Len(rest) < 8 THEN Panic
            ELSE IF len < 9 \/ PieceBlockLen(len) > Len(rest) - 8 THEN Panic
            ELSE Ok(Piece(GetU32(rest), GetU32(Advance(rest, 4)),
                          Prefix(Advance(rest, 8), PieceBlockLen(len))))
      [] idx = 8 ->
            IF Len(rest) < 12 THEN Panic
            ELSE Ok(Cancel(GetU32(rest), GetU32(Advance(rest, 4)),
                           GetU32(Advance(rest, 8))))
      [] idx = 9 ->
            IF Len(rest) < 2 THEN Panic ELSE Ok(Port(GetU16(rest)))
      [] OTHER -> Err

\* MessageType::from_bytes(bytes, id, len)
from_bytes(bytes, id, len) ==
    IF Len(bytes) < 4 THEN Err
    ELSE LET message_length == GetU32(bytes)
             body == Advance(bytes, 4)
         IN  IF message_length = 0 THEN Ok(KeepAlive)
             ELSE IF Len(body) < message_length THEN Err
             ELSE DecodeBody(body[1], Advance(body, 1), len)

\* PeerSession::read_message on a stream holding the bytes `stream`:
\* read_exact fails (Err) when the stream ends before 4 + msg_len bytes.
read_message(stream) ==
    IF Len(stream) < 4 THEN Err
    ELSE LET msg_len == GetU32(stream)
         IN  IF Len(stream) < 4 + msg_len THEN Err
             ELSE LET msg_buf == Prefix(stream, 4 + msg_len)
                      id == IF msg_len > 0 THEN msg_buf[5] ELSE 0
                  IN  from_bytes(msg_buf, id, msg_len)

\* ------------------------------------------------------------------------
\* Codec harness: inputs, tests::round_trip and read_message on raw frames
\* ------------------------------------------------------------------------

\* The sequences over S of length at most n
RECURSIVE SeqsUpTo(_, _)
SeqsUpTo(S, n) ==
    IF n = 0 THEN { <<>> }
    ELSE LET shorter == SeqsUpTo(S, n - 1)
         IN  shorter \cup { Append(s, x) : s \in { t \in shorter : Len(t) = n - 1 }, x \in S }

U32Inputs     == { 0, 1, 42, 258, 16384, 2147483647 }
SmallU32      == { 0, 258, 2147483647 }
U16Inputs     == { 0, 255, 6881, 65535 }
PayloadBytes  == { 0, 170, 255 }
PayloadInputs == SeqsUpTo(PayloadBytes, MaxPayload) \cup { <<170, 240>>, <<1, 2, 3, 4, 5>> }

MessageInputs ==
    { Choke, Unchoke, Interested, NotInterested, KeepAlive }
        \cup { Have(i) : i \in U32Inputs }
        \cup { Bitfield(b) : b \in PayloadInputs }
        \cup { Request(i, b, l) : i \in SmallU32, b \in SmallU32, l \in SmallU32 }
        \cup { Piece(i, b, d) : i \in { 0, 42 }, b \in { 0, 16384 }, d \in PayloadInputs }
        \cup { Cancel(i, b, l) : i \in SmallU32, b \in SmallU32, l \in SmallU32 }
        \cup { Port(p) : p \in U16Inputs }

\* Frames a peer can put on the stream that no MessageType encodes to:
\* unknown ids, payloads shorter than the kind needs, streams that end early.
MalformedFrames ==
    { <<0, 0, 0, 1, 4>>,                      \* Have, length 1
      <<0, 0, 0, 3, 4, 0, 0>>,                \* Have, length 3
      <<0, 0, 0, 5, 6, 0, 0, 0, 1>>,          \* Request, length 5
      <<0, 0, 0, 1, 8>>,                      \* Cancel, length 1
      <<0, 0, 0, 5, 7, 0, 0, 0, 1>>,          \* Piece, length 5
      <<0, 0, 0, 1, 7>>,                      \* Piece, length 1
      <<0, 0, 0, 2, 9, 26>>,                  \* Port, length 2
      <<0, 0, 0, 1, 10>>,                     \* unknown id 10
      <<0, 0, 0, 2, 255, 0>>,                 \* unknown id 255
      <<0, 0>>,                               \* stream ends inside the length
      <<0, 0, 0, 5, 4, 0>> }                  \* stream ends inside the payload

RawFrames ==
    MalformedFrames \cup { to_bytes(m) : m \in MessageInputs }
        \cup { <<0, 0, 0, 6, 4, 0, 0, 0, 42, 7>> }   \* Have with a trailing byte

CodecIdle ==
    codecPc = "idle" /\ original = NoMsg /\ frame = <<>> /\ parsed = NoResult

HasPieceIdle ==
    hpPc = "idle" /\ hpBitfield = <<>> /\ hpIndex = 0 /\ hpResult = NoResult

PeerListIdle ==
    plPc = "idle" /\ peers_enum = [kind |-> "none"] /\ peer_list = <<>>

None == [none |-> TRUE]

SessionIdle ==
    /\ startPc = "idle" /\ start_result = NoResult /\ socket = "none"
    /\ handshake_response = <<>> /\ wire = <<>>
    /\ peer_state = None /\ listenerPc = "none" /\ block_rx = <<>>
    /\ requesterPc = "none" /\ state = None /\ piece_work = None
    /\ piece_queue = <<>> /\ piece_tx = <<>> /\ outstanding = {}
    /\ peer_reorders = FALSE /\ delivered = {} /\ out_of_order = FALSE

AnnounceIdle ==
    /\ annPc = "idle" /\ clock = 0 /\ tracker = None /\ wait_time = 0
    /\ announces = 0 /\ last = None /\ sent = <<>>

TorrentIdle ==
    /\ calls_left = 0 /\ tracker_peers = <<>> /\ peers_respond = FALSE
    /\ metainfo = None /\ started = FALSE /\ known_peers = <<>> /\ tracker_lock = 0
    /\ announcers = <<>> /\ work_queues = <<>> /\ result_channels = <<>>
    /\ piece_managers = <<>> /\ reconcilers = <<>> /\ active_peers = <<>>
    /\ sessions = <<>> /\ reconciler_locks = <<>>

LoadIdle == loadPc = "idle" /\ torrent_bytes = <<>> /\ load_result = NoResult

PieceManagerIdle == pm_got = <<>>

FilesIdle == root = None /\ path = <<>> /\ insert_result = NoResult /\ inserts = 0

QueryIdle == request = None /\ query_string = <<>>

LocksIdle == queue_lock = 0 /\ requesters = <<>>

MoreIdle == FilesIdle /\ QueryIdle /\ heard = None /\ LocksIdle

ControllerIdle ==
    AnnounceIdle /\ TorrentIdle /\ LoadIdle /\ PieceManagerIdle /\ MoreIdle

CodecInit ==
    /\ HasPieceIdle /\ PeerListIdle /\ SessionIdle /\ ControllerIdle
    /\ parsed = NoResult
    /\ \/ /\ codecPc = "input"
          /\ original \in MessageInputs
          /\ frame = <<>>
       \/ /\ codecPc = "encoded"
          /\ original = NoMsg
          /\ frame \in RawFrames

\* tests::round_trip, first half: let actual_bytes = original.to_bytes()
Encode ==
    /\ codecPc = "input"
    /\ frame' = to_bytes(original)
    /\ codecPc' = "encoded"
    /\ UNCHANGED <<original, parsed, nonCodecVars>>

\* tests::round_trip, second half: peek len and id, then from_bytes
RoundTripDecode ==
    /\ codecPc = "encoded"
    /\ original # NoMsg
    /\ LET len == GetU32(frame)
           id == IF len > 0 THEN frame[5] ELSE 0
       IN  parsed' = from_bytes(frame, id, len)
    /\ codecPc' = "decoded"
    /\ UNCHANGED <<original, frame, nonCodecVars>>

\* PeerSession::read_message on the bytes a peer sent
ReadMessage ==
    /\ codecPc = "encoded"
    /\ original = NoMsg
    /\ parsed' = read_message(frame)
    /\ codecPc' = "decoded"
    /\ UNCHANGED <<original, frame, nonCodecVars>>

CodecNext == Encode \/ RoundTripDecode \/ ReadMessage

SpecCodec == CodecInit /\ [][CodecNext]_vars

\* ------------------------------------------------------------------------
\* Claims about the codec
\* ------------------------------------------------------------------------

\* The value of a big-endian byte string
RECURSIVE BEValue(_)
BEValue(s) ==
    IF s = <<>> THEN 0 ELSE BEValue(SubSeq(s, 1, Len(s) - 1)) * 256 + s[Len(s)]

\* The id column of the message table (spec 4.1)
MessageId(type) ==
    CASE type = "Choke" -> 0 [] type = "Unchoke" -> 1 [] type = "Interested" -> 2
      [] type = "NotInterested" -> 3 [] type = "Have" -> 4 [] type = "Bitfield" -> 5
      [] type = "Request" -> 6 [] type = "Piece" -> 7 [] type = "Cancel" -> 8
      [] type = "Port" -> 9

\* The payload column of the message table: does payload p carry message m?
PayloadCarries(m, p) ==
    CASE m.type \in { "Choke", "Unchoke", "Interested", "NotInterested" } -> p = <<>>
      [] m.type = "Have" -> Len(p) = 4 /\ BEValue(p) = m.index
      [] m.type = "Bitfield" -> p = m.bitfield
      [] m.type \in { "Request", "Cancel" } ->
            /\ Len(p) = 12
            /\ BEValue(SubSeq(p, 1, 4)) = m.index
            /\ BEValue(SubSeq(p, 5, 8)) = m.begin
            /\ BEValue(SubSeq(p, 9, 12)) = m.length
      [] m.type = "Piece" ->
            /\ Len(p) >= 8
            /\ BEValue(SubSeq(p, 1, 4)) = m.index
            /\ BEValue(SubSeq(p, 5, 8)) = m.begin
            /\ SubSeq(p, 9, Len(p)) = m.block
      [] m.type = "Port" -> Len(p) = 2 /\ BEValue(p) = m.port

\* C1: decoding the encoding of any message, with id and len peeked from the
\* encoded bytes, returns Ok of the same message.
C1_RoundTrip ==
    (codecPc = "decoded" /\ original # NoMsg) => parsed = Ok(original)

\* C1 witness: a Piece with an empty block went through encode and decode
\* and came back as Ok.
C1_Witness ==
    /\ codecPc = "decoded"
    /\ original = Piece(42, 16384, <<>>)
    /\ parsed.tag = "Ok"

\* C2: every message but KeepAlive encodes as a 4-byte big-endian length equal
\* to 1 + payload size, the id of the message table, then the payload with
\* big-endian integers; KeepAlive encodes as exactly four zero bytes.
C2_WireFormat ==
    (codecPc \in { "encoded", "decoded" } /\ original # NoMsg) =>
        IF original.type = "KeepAlive" THEN frame = <<0, 0, 0, 0>>
        ELSE /\ Len(frame) >= 5
             /\ BEValue(SubSeq(frame, 1, 4)) = 1 + (Len(frame) - 5)
             /\ frame[5] = MessageId(original.type)
             /\ PayloadCarries(original, SubSeq(frame, 6, Len(frame)))

\* C2 witness: a Request with multi-byte field values has been encoded.
C2_Witness ==
    /\ codecPc = "encoded"
    /\ original = Request(258, 2147483647, 258)
    /\ Len(frame) = 17

\* The payload size each message kind needs at least (message table)
RequiredPayload(id) ==
    CASE id = 4 -> 4 [] id \in { 6, 8 } -> 12 [] id = 7 -> 8 [] id = 9 -> 2 [] OTHER -> 0

\* A complete frame with an unknown id or a payload shorter than its kind needs
MalformedFrame(f) ==
    /\ Len(f) >= 5
    /\ Len(f) = 4 + BEValue(SubSeq(f, 1, 4))
    /\ \/ f[5] \notin 0..9
       \/ Len(f) - 5 < RequiredPayload(f[5])

\* C3 (as claimed): decoding a frame returns a message or an error value; a
\* frame with an unknown id or a truncated payload yields an error, never a
\* message and never a crash of the decoding task.
C3_DecodeErrorsNotPanics ==
    (codecPc = "decoded" /\ original = NoMsg) =>
        /\ parsed.tag \in { "Ok", "Err" }
        /\ MalformedFrame(frame) => parsed = Err

\* ------------------------------------------------------------------------
\* PeerState::has_piece (peer_session.rs:44-51)
\* ------------------------------------------------------------------------

RECURSIVE Pow2(_)
Pow2(n) == IF n = 0 THEN 1 ELSE 2 * Pow2(n - 1)

\* A bit offset counted from the least significant bit of the byte
BitOffsetLsbFirst(piece_index) == piece_index % 8

\* let bit_offset = 7 - (piece_index % 8)
BitOffset(piece_index) == 7 - (piece_index % 8)

\* let byte_offset = piece_index / 8
ByteOffset(piece_index) == piece_index \div 8

\* byte & (1 << bit_offset) != 0
BitSet(byte, bit_offset) == (byte \div Pow2(bit_offset)) % 2 = 1

\* PeerState::has_piece; indexing self.bitfield out of range panics
has_piece(bitfield, piece_index) ==
    IF ByteOffset(piece_index) >= Len(bitfield) THEN Panic
    ELSE Ok(BitSet(bitfield[ByteOffset(piece_index) + 1], BitOffset(piece_index)))

BitfieldBytes  == { 0, 1, 64, 128, 170, 255 }
BitfieldInputs == SeqsUpTo(BitfieldBytes, MaxBitfieldLen)
IndexInputs    == 0 .. (8 * MaxBitfieldLen + 1)

HasPieceInit ==
    /\ CodecIdle /\ PeerListIdle /\ SessionIdle /\ ControllerIdle
    /\ hpPc = "input"
    /\ hpBitfield \in BitfieldInputs
    /\ hpIndex \in IndexInputs
    /\ hpResult = NoResult

HasPieceCall ==
    /\ hpPc = "input"
    /\ hpResult' = has_piece(hpBitfield, hpIndex)
    /\ hpPc' = "done"
    /\ UNCHANGED <<hpBitfield, hpIndex, nonHpVars>>

HasPieceNext == HasPieceCall

SpecHasPiece == HasPieceInit /\ [][HasPieceNext]_vars

\* The eight bits of a byte, most significant first
BitsMsbFirst(byte) ==
    CHOOSE b \in [1..8 -> {0, 1}] :
        byte = 128 * b[1] + 64 * b[2] + 32 * b[3] + 16 * b[4]
                + 8 * b[5] + 4 * b[6] + 2 * b[7] + b[8]

\* C6: for a piece index i with i/8 inside the bitfield, has_piece(i) is true
\* exactly when bit (7 - i mod 8) of byte i/8 is 1, counting MSB-first; for
\* the bitfield 0b10000000 0b01000000 it is true for 0 and 9, false for 1 and 8.
C6_HasPieceMsbFirst ==
    (hpPc = "done" /\ hpIndex \div 8 < Len(hpBitfield)) =>
        /\ hpResult = Ok(BitsMsbFirst(hpBitfield[hpIndex \div 8 + 1])[(hpIndex % 8) + 1] = 1)
        /\ hpBitfield = <<128, 64>> => hpResult = Ok(hpIndex \in { 0, 9 })

\* C6 witness: has_piece(9) was evaluated on 0b10000000 0b01000000 and is true.
C6_Witness ==
    /\ hpPc = "done"
    /\ hpBitfield = <<128, 64>>
    /\ hpIndex = 9
    /\ hpResult = Ok(TRUE)

\* ------------------------------------------------------------------------
\* impl From<PeersEnum> for Vec<Peer> (torrent.rs:43-67)
\* ------------------------------------------------------------------------

DigitText == << "0", "1", "2", "3", "4", "5", "6", "7", "8", "9" >>

\* The decimal text of a natural number (Display for u8)
RECURSIVE ToDecimal(_)
ToDecimal(n) ==
    IF n < 10 THEN DigitText[n + 1]
    ELSE ToDecimal(n \div 10) \o DigitText[(n % 10) + 1]

\* Ipv4Addr::new(a, b, c, d).to_string()
Ipv4ToString(a, b, c, d) ==
    ToDecimal(a) \o "." \o ToDecimal(b) \o "." \o ToDecimal(c) \o "." \o ToDecimal(d)

\* A port read with the low byte first
ChunkPortLittleEndian(chunk) == chunk[5] + 256 * chunk[6]

\* u16::from_be_bytes([chunk[4], chunk[5]]) as u64
ChunkPort(chunk) == GetU16(<<chunk[5], chunk[6]>>)

\* The Peer one 6-byte chunk of a compact peers string becomes
ChunkToPeer(chunk) ==
    [ip |-> Ipv4ToString(chunk[1], chunk[2], chunk[3], chunk[4]), port |-> ChunkPort(chunk)]

\* items.chunks_exact(6): the complete 6-byte chunks, in order; a remainder
\* of fewer than 6 bytes is left out
ChunksExact6(items) ==
    [k \in 1 .. (Len(items) \div 6) |-> SubSeq(items, 6 * k - 5, 6 * k)]

\* impl From<PeersEnum> for Vec<Peer>
peers_from(pe) ==
    IF pe.kind = "Dict"
    THEN [k \in 1 .. Len(pe.dicts) |-> [ip |-> pe.dicts[k].ip, port |-> pe.dicts[k].port]]
    ELSE LET chunks == ChunksExact6(pe.items)
         IN  [k \in 1 .. Len(chunks) |-> ChunkToPeer(chunks[k])]

\* The concatenation of the sequences of ss, halving ss so that the
\* evaluation nests no deeper than the logarithm of its length
RECURSIVE Flatten(_)
Flatten(ss) ==
    IF ss = <<>> THEN <<>>
    ELSE IF Len(ss) = 1 THEN ss[1]
    ELSE LET half == Len(ss) \div 2
         IN  Flatten(SubSeq(ss, 1, half)) \o Flatten(SubSeq(ss, half + 1, Len(ss)))

ChunkInputs ==
    { <<10, 0, 0, 1, 26, 225>>, <<10, 0, 0, 2, 26, 226>>, <<192, 168, 1, 10, 0, 80>>,
      <<255, 255, 255, 255, 255, 255>>, <<0, 0, 0, 0, 0, 0>> }

\* Bytes behind the last complete chunk
TrailingInputs == { <<>>, <<7>>, <<10, 0, 0, 3, 26>> }

PeersDictInputs ==
    { [peer_id |-> "-MOCK0-1234567890123", ip |-> "10.0.0.1", port |-> 6881],
      [peer_id |-> "-RS0001-kONXltkhXIr5", ip |-> "tracker.example", port |-> 51413],
      [peer_id |-> "-MOCK0-1234567890123", ip |-> "::1", port |-> 0] }

PeersEnumInputs ==
    { [kind |-> "Compact", items |-> Flatten(cs) \o t] :
          cs \in SeqsUpTo(ChunkInputs, MaxPeerEntries), t \in TrailingInputs }
        \cup { [kind |-> "Dict", dicts |-> ds] : ds \in SeqsUpTo(PeersDictInputs, MaxPeerEntries) }

PeerListInit ==
    /\ CodecIdle /\ HasPieceIdle /\ SessionIdle /\ ControllerIdle
    /\ plPc = "input"
    /\ peers_enum \in PeersEnumInputs
    /\ peer_list = <<>>

\* self.peer_list = peers.into()
PeersInto ==
    /\ plPc = "input"
    /\ peer_list' = peers_from(peers_enum)
    /\ plPc' = "done"
    /\ UNCHANGED <<peers_enum, nonPlVars>>

PeerListNext == PeersInto

SpecPeerList == PeerListInit /\ [][PeerListNext]_vars

\* The decimal text of the octets the inputs use, written out
OctetText ==
    (0 :> "0") @@ (1 :> "1") @@ (2 :> "2") @@ (10 :> "10") @@ (168 :> "168")
        @@ (192 :> "192") @@ (255 :> "255")

\* C10: the conversion yields one record per input entry in input order: chunk
\* (b0..b5) of a compact string of N 6-byte chunks becomes host b0.b1.b2.b3
\* and port 256*b4+b5, and a dict list yields each dict's (ip, port) in order.
C10_PeersInOrder ==
    plPc = "done" =>
        /\ (peers_enum.kind = "Compact" /\ Len(peers_enum.items) % 6 = 0) =>
              /\ Len(peer_list) = Len(peers_enum.items) \div 6
              /\ \A k \in 1 .. Len(peer_list) :
                    LET b == SubSeq(peers_enum.items, 6 * (k - 1) + 1, 6 * k)
                    IN  /\ peer_list[k].ip =
                              OctetText[b[1]] \o "." \o OctetText[b[2]] \o "."
                                  \o OctetText[b[3]] \o "." \o OctetText[b[4]]
                        /\ peer_list[k].port = 256 * b[5] + b[6]
        /\ peers_enum = [kind |-> "Compact",
                         items |-> <<10, 0, 0, 1, 26, 225, 10, 0, 0, 2, 26, 226>>] =>
              peer_list = << [ip |-> "10.0.0.1", port |-> 6881],
                             [ip |-> "10.0.0.2", port |-> 6882] >>
        /\ peers_enum.kind = "Dict" =>
              /\ Len(peer_list) = Len(peers_enum.dicts)
              /\ \A k \in 1 .. Len(peer_list) :
                    /\ peer_list[k].ip = peers_enum.dicts[k].ip
                    /\ peer_list[k].port = peers_enum.dicts[k].port

\* C10 witness: the two-chunk compact string of the spec's scenario was
\* converted into two records.
C10_Witness ==
    /\ plPc = "done"
    /\ peers_enum = [kind |-> "Compact",
                     items |-> <<10, 0, 0, 1, 26, 225, 10, 0, 0, 2, 26, 226>>]
    /\ Len(peer_list) = 2

\* C11 (as claimed): a compact peers string whose length is not a multiple
\* of 6 is a decode error: no peer list is produced from it, and the peer
\* list of the tracker session (empty before) is not replaced by the records
\* of its complete chunks.
C11_TrailingBytesRejected ==
    (plPc = "done" /\ peers_enum.kind = "Compact" /\ Len(peers_enum.items) % 6 # 0)
        => peer_list = <<>>

\* ------------------------------------------------------------------------
\* Piece work model (work.rs)
\* ------------------------------------------------------------------------

\* const BLOCK_SIZE: usize = 16 * 1024
BLOCK_SIZE == 16384

\* A minimum that always answers its first argument
MinFirst(a, b) == a

\* std::cmp::min
Min(a, b) == IF a < b THEN a ELSE b

\* The bytes of a block are not spelled out: a byte string of torrent content
\* is a sequence of segments, each standing for the `len` content bytes of
\* piece `piece` from offset `begin` on.  Concatenation is \o, and the byte
\* length is the sum of the segment lengths.
ContentSegment(piece, begin, len) ==
    IF len = 0 THEN <<>> ELSE << [piece |-> piece, begin |-> begin, len |-> len] >>

\* Vec<u8>::len of a content byte string
RECURSIVE DataLen(_)
DataLen(d) == IF d = <<>> THEN 0 ELSE Head(d).len + DataLen(Tail(d))

\* The while loop of From<PieceRequest>: the blocks from `offset` on
RECURSIVE BuildBlocks(_, _)
BuildBlocks(offset, length_bytes) ==
    IF offset < length_bytes
    THEN LET remaining == length_bytes - offset
             block_len == Min(BLOCK_SIZE, remaining)
         IN  << [offset |-> offset, length |-> block_len, status |-> "Empty", data |-> <<>>] >>
                 \o BuildBlocks(offset + block_len, length_bytes)
    ELSE <<>>

\* impl From<PieceRequest> for PieceWork
PieceWorkFrom(value) ==
    [index |-> value.piece_index,
     length |-> value.length_bytes,
     block_size |-> BLOCK_SIZE,
     blocks |-> BuildBlocks(0, value.length_bytes)]

\* A test that takes a piece for complete as soon as no block is Empty
NoBlockEmpty(work) == \A k \in 1 .. Len(work.blocks) : work.blocks[k].status # "Empty"

\* PieceWork::is_complete
is_complete(work) == \A k \in 1 .. Len(work.blocks) : work.blocks[k].status = "Full"

PieceErr(e) == [tag |-> "Err", error |-> e]

\* PieceWork::to_piece_response
to_piece_response(work) ==
    LET bytes == Flatten([k \in 1 .. Len(work.blocks) |-> work.blocks[k].data])
    IN  IF DataLen(bytes) # work.length
        THEN [piece_index |-> work.index, result |-> PieceErr("InvalidData")]
        ELSE [piece_index |-> work.index, result |-> Ok(bytes)]

\* ------------------------------------------------------------------------
\* PeerSession (peer_session.rs)
\* ------------------------------------------------------------------------

\* let max_in_flight = 5
max_in_flight == 5

\* channel::<BlockResponse>(100)
BlockChannelCapacity == 100

\* const PSTR: &[u8; 19] = b"BitTorrent protocol"
PSTR ==
    << 66, 105, 116, 84, 111, 114, 114, 101, 110, 116, 32,
       112, 114, 111, 116, 111, 99, 111, 108 >>

\* The session's info_hash and peer_id (MOCK_INFO_HASH = b"12345678901234567890",
\* MOCK_CLIENT_ID = b"-TEST0-1234567890123" of the handshake test)
info_hash ==
    << 49, 50, 51, 52, 53, 54, 55, 56, 57, 48, 49, 50, 51, 52, 53, 54, 55, 56, 57, 48 >>
peer_id ==
    << 45, 84, 69, 83, 84, 48, 45, 49, 50, 51, 52, 53, 54, 55, 56, 57, 48, 49, 50, 51 >>

\* The request bytes send_handshake builds
HandshakeBytes(hash, id) ==
    <<19>> \o PSTR \o <<0, 0, 0, 0, 0, 0, 0, 0>> \o hash \o id

\* PeerSession::new: the initial PeerState
NewPeerState ==
    [is_choked |-> TRUE, is_choking |-> TRUE, is_peer_interested |-> FALSE,
     is_interested |-> FALSE, bitfield |-> <<>>]

\* A verification that accepts every handshake
InfoHashUnchecked(response) == TRUE

\* let resp = &handshake_response[28..48]; resp == self.info_hash
InfoHashMatches(response) == SubSeq(response, 29, 48) = info_hash

\* The frame send_interested would write if it sent NotInterested
send_not_interested_bytes == to_bytes(NotInterested)

\* send_interested: MessageType::Interested.to_bytes()
send_interested_bytes == to_bytes(Interested)

\* send_unchoke: MessageType::Unchoke.to_bytes()
send_unchoke_bytes == to_bytes(Unchoke)

StartErr(why) == [tag |-> "Err", why |-> why]

\* start returns Err: the locals reader and writer are dropped with the frame
StartFails(why) ==
    /\ startPc' = "returned"
    /\ start_result' = StartErr(why)
    /\ socket' = IF socket = "none" THEN "none" ELSE "closed"

\* TcpStream::connect(&self.url).await?
StartConnect ==
    /\ startPc = "connect"
    /\ \E ok \in BOOLEAN :
          IF ok THEN /\ socket' = "open"
                     /\ startPc' = "send_handshake"
                     /\ UNCHANGED start_result
          ELSE StartFails("connect")
    /\ UNCHANGED <<handshake_response, wire, listVars, reqVars, outstanding, restVars>>

\* PeerSession::send_handshake(&mut writer, &self.info_hash, &self.peer_id).await?
StartSendHandshake ==
    /\ startPc = "send_handshake"
    /\ \E ok \in BOOLEAN :
          IF ok /\ socket = "open"
          THEN /\ wire' = wire \o HandshakeBytes(info_hash, peer_id)
               /\ startPc' = "read_handshake"
               /\ UNCHANGED <<start_result, socket>>
          ELSE /\ StartFails("send_handshake")
               /\ UNCHANGED wire
    /\ UNCHANGED <<handshake_response, listVars, reqVars, outstanding, restVars>>

\* The handshakes a peer may answer with: the right one, another torrent's,
\* one differing in the last byte of the hash, and one with a wrong protocol
\* string but the right hash
MOCK_PEER_ID ==
    << 45, 77, 79, 67, 75, 48, 45, 49, 50, 51, 52, 53, 54, 55, 56, 57, 48, 49, 50, 51 >>

PeerHandshakes ==
    { HandshakeBytes(info_hash, MOCK_PEER_ID),
      HandshakeBytes([k \in 1..20 |-> 90], MOCK_PEER_ID),
      HandshakeBytes([info_hash EXCEPT ![20] = 49], MOCK_PEER_ID),
      <<19>> \o [k \in 1..19 |-> 120] \o <<0, 0, 0, 0, 0, 0, 0, 0>> \o info_hash \o MOCK_PEER_ID }

\* read_handshake(&mut reader).await?, then the info-hash comparison and bail!
StartReadHandshake ==
    /\ startPc = "read_handshake"
    /\ \/ \E response \in PeerHandshakes :
            /\ socket = "open"
            /\ handshake_response' = response
            /\ IF InfoHashMatches(response)
               THEN /\ startPc' = "send_interested"
                    /\ UNCHANGED <<start_result, socket>>
               ELSE StartFails("info_hash")
       \/ /\ StartFails("read_handshake")
          /\ UNCHANGED handshake_response
    /\ UNCHANGED <<wire, listVars, reqVars, outstanding, restVars>>

\* PeerSession::send_interested(&mut writer).await?
StartSendInterested ==
    /\ startPc = "send_interested"
    /\ \E ok \in BOOLEAN :
          IF ok /\ socket = "open"
          THEN /\ wire' = wire \o send_interested_bytes
               /\ startPc' = "send_unchoke"
               /\ UNCHANGED <<start_result, socket>>
          ELSE /\ StartFails("send_interested")
               /\ UNCHANGED wire
    /\ UNCHANGED <<handshake_response, listVars, reqVars, outstanding, restVars>>

\* PeerSession::send_unchoke(&mut writer).await?
StartSendUnchoke ==
    /\ startPc = "send_unchoke"
    /\ \E ok \in BOOLEAN :
          IF ok /\ socket = "open"
          THEN /\ wire' = wire \o send_unchoke_bytes
               /\ startPc' = "spawn_listener"
               /\ UNCHANGED <<start_result, socket>>
          ELSE /\ StartFails("send_unchoke")
               /\ UNCHANGED wire
    /\ UNCHANGED <<handshake_response, listVars, reqVars, outstanding, restVars>>

\* tokio::spawn(peer_listener(state_ref, reader, block_tx))
StartSpawnListener ==
    /\ startPc = "spawn_listener"
    /\ listenerPc' = "running"
    /\ startPc' = "spawn_requester"
    /\ UNCHANGED <<start_result, handshake_response, socket, wire, peer_state, block_rx,
                   reqVars, outstanding, restVars>>

\* tokio::spawn(peer_requester(..)); Ok(())
StartSpawnRequester ==
    /\ startPc = "spawn_requester"
    /\ requesterPc' = "snapshot"
    /\ startPc' = "returned"
    /\ start_result' = Ok("unit")
    /\ UNCHANGED <<handshake_response, socket, wire, listVars, state, piece_work,
                   piece_queue, piece_tx, delivered, out_of_order, outstanding, restVars>>

\* ---- peer_listener ------------------------------------------------------

\* A match that changes nothing for any message
ApplyNothing(ps, msg) == ps

\* The match on msg of peer_listener, for every message but Piece: the new
\* PeerState (Have, Request, Cancel, Port and KeepAlive only print)
ApplyToState(ps, msg) ==
    CASE msg.type = "Choke" -> [ps EXCEPT !.is_choked = TRUE]
      [] msg.type = "Unchoke" -> [ps EXCEPT !.is_choked = FALSE]
      [] msg.type = "Interested" -> [ps EXCEPT !.is_peer_interested = TRUE]
      [] msg.type = "NotInterested" -> [ps EXCEPT !.is_peer_interested = FALSE]
      [] msg.type = "Bitfield" -> [ps EXCEPT !.bitfield = msg.bitfield]
      [] OTHER -> ps

\* One turn of the listener loop on a decoded message.  A Piece goes to the
\* block channel with try_send; its error (channel full, or the receiver
\* dropped with the requester task) leaves the loop through `?`.
ListenerHandle(msg) ==
    IF msg.type = "Piece"
    THEN /\ IF Len(block_rx) >= BlockChannelCapacity \/ requesterPc = "panicked"
            THEN /\ listenerPc' = "returned"
                 /\ UNCHANGED block_rx
            ELSE /\ block_rx' = Append(block_rx,
                        [index |-> msg.index, begin |-> msg.begin, block |-> msg.block])
                 /\ UNCHANGED listenerPc
         /\ UNCHANGED peer_state
    ELSE /\ peer_state' = ApplyToState(peer_state, msg)
         /\ UNCHANGED <<listenerPc, block_rx>>

\* The frames the peer of a download session sends besides Piece frames; the
\* last one is a Have frame whose payload is missing
SessionPeerFrames ==
    { to_bytes(Choke), to_bytes(Unchoke), to_bytes(KeepAlive), to_bytes(Have(1)),
      to_bytes(Bitfield(<<128>>)), to_bytes(Bitfield(<<240>>)),
      <<0, 0, 0, 1, 4>> }

\* peer_listener, one loop turn: read_message(..).await.unwrap(), then the match
ListenerRecv ==
    /\ listenerPc = "running"
    /\ socket = "open"
    /\ \E f \in SessionPeerFrames :
          LET msg == read_message(f)
          IN  IF msg.tag = "Ok"
              THEN ListenerHandle(msg.val)
              ELSE /\ listenerPc' = "panicked"
                   /\ UNCHANGED <<peer_state, block_rx>>
    /\ UNCHANGED <<startVars, socket, wire, reqVars, outstanding, restVars>>

\* The Requests the peer may answer next: any it holds, or, for a peer that
\* serves them in order, the one of the lowest offset
Answerable ==
    IF peer_reorders THEN outstanding
    ELSE { r \in outstanding : \A q \in outstanding : r.begin <= q.begin }

\* peer_listener, one loop turn on the Piece frame that answers a Request the
\* peer holds; the block carries the content the Request asked for
ListenerRecvPiece ==
    /\ listenerPc = "running"
    /\ socket = "open"
    /\ \E r \in Answerable :
          /\ outstanding' = outstanding \ { r }
          /\ ListenerHandle(Piece(r.index, r.begin,
                                  ContentSegment(r.index, r.begin, r.length)))
    /\ UNCHANGED <<startVars, socket, wire, reqVars, restVars>>

\* The peer closes the connection; the read_message a running listener is
\* waiting in fails, and its unwrap panics
PeerClose ==
    /\ socket = "open"
    /\ socket' = "closed"
    /\ listenerPc' = IF listenerPc = "running" THEN "panicked" ELSE listenerPc
    /\ UNCHANGED <<startVars, wire, peer_state, block_rx, reqVars, outstanding,
                   restVars>>

\* peer_listener spawned on a socket the peer has already closed:
\* read_message fails and unwrap panics
ListenerReadFails ==
    /\ listenerPc = "running"
    /\ socket = "closed"
    /\ listenerPc' = "panicked"
    /\ UNCHANGED <<startVars, socket, wire, peer_state, block_rx, reqVars, outstanding,
                   restVars>>

\* ---- peer_requester -----------------------------------------------------

\* channel::<PieceResponse>(100)
ResultChannelCapacity == 100

\* A match on the status alone: the first block still InProgress
MatchesAnyInProgress(block, offset) == block.status = "InProgress"

\* |block| block.offset == offset && block.status == BlockStatus::InProgress
MatchesBlock(block, offset) == block.offset = offset /\ block.status = "InProgress"

\* The body of `while let Ok(block_response) = block_rx.try_recv()`
FillBlock(blocks, block_response) ==
    LET found == { k \in 1 .. Len(blocks) : MatchesBlock(blocks[k], block_response.begin) }
    IN  IF found = {} THEN blocks
        ELSE LET k == CHOOSE i \in found : \A j \in found : i <= j
             IN  [blocks EXCEPT ![k].data = block_response.block, ![k].status = "Full"]

\* The whole try_recv loop over the channel content `responses`: the
\* responses are taken in channel order, the first half before the second
RECURSIVE Drain(_, _)
Drain(blocks, responses) ==
    IF responses = <<>> THEN blocks
    ELSE IF Len(responses) = 1 THEN FillBlock(blocks, responses[1])
    ELSE LET half == Len(responses) \div 2
         IN  Drain(Drain(blocks, SubSeq(responses, 1, half)),
                   SubSeq(responses, half + 1, Len(responses)))

\* Whether the loop took a response while a block of lower offset was not Full
RECURSIVE DrainOutOfOrder(_, _)
DrainOutOfOrder(blocks, responses) ==
    IF responses = <<>> THEN FALSE
    ELSE IF Len(responses) = 1
    THEN \E k \in 1 .. Len(blocks) :
             blocks[k].offset < responses[1].begin /\ blocks[k].status # "Full"
    ELSE LET half == Len(responses) \div 2
             first == SubSeq(responses, 1, half)
         IN  \/ DrainOutOfOrder(blocks, first)
             \/ DrainOutOfOrder(Drain(blocks, first),
                                SubSeq(responses, half + 1, Len(responses)))

\* .filter(|block| block.status == Empty).take(max_in_flight): their positions
NextBlocks(blocks) ==
    LET empty == { k \in 1 .. Len(blocks) : blocks[k].status = "Empty" }
    IN  { k \in empty : Cardinality({ j \in empty : j < k }) < max_in_flight }

\* .map(|block| { block.status = InProgress; block })
MarkInProgress(blocks, sel) ==
    [k \in 1 .. Len(blocks) |->
        IF k \in sel THEN [blocks[k] EXCEPT !.status = "InProgress"] ELSE blocks[k]]

\* send_request: the Request frames of the selected blocks, in block order
send_request_bytes(piece_index, blocks, sel) ==
    Flatten([k \in 1 .. Len(blocks) |->
        IF k \in sel
        THEN to_bytes(Request(piece_index, blocks[k].offset, blocks[k].length))
        ELSE <<>>])

\* A requester that asks for blocks whatever the snapshot says
ChokeIgnored(snapshot) == FALSE

\* `if !state.is_choked` on the snapshot taken at the top of the iteration
Choked(snapshot) == snapshot.is_choked

\* let state = { peer_state.lock().await.clone() }
RequesterSnapshot ==
    /\ requesterPc = "snapshot"
    /\ state' = peer_state
    /\ requesterPc' = "fetch"
    /\ UNCHANGED <<startVars, socket, wire, listVars, piece_work, piece_queue, piece_tx,
                   delivered, out_of_order, outstanding, restVars>>

\* if piece_work.is_none() { pop_front; has_piece; adopt or PieceUnavailable }
RequesterFetch ==
    /\ requesterPc = "fetch"
    /\ IF piece_work # None \/ piece_queue = <<>>
       THEN /\ requesterPc' = "work"
            /\ UNCHANGED <<piece_work, piece_queue, piece_tx, delivered, out_of_order>>
       ELSE LET piece_req == Head(piece_queue)
                has == has_piece(state.bitfield, piece_req.piece_index)
            IN  /\ piece_queue' = Tail(piece_queue)
                /\ IF has = Panic
                   THEN /\ requesterPc' = "panicked"
                        /\ UNCHANGED <<piece_work, piece_tx, delivered, out_of_order>>
                   ELSE IF has.val
                   THEN /\ piece_work' = PieceWorkFrom(piece_req)
                        /\ delivered' = {}
                        /\ out_of_order' = FALSE
                        /\ requesterPc' = "work"
                        /\ UNCHANGED piece_tx
                   ELSE /\ Len(piece_tx) < ResultChannelCapacity
                        /\ piece_tx' = Append(piece_tx,
                              [piece_index |-> piece_req.piece_index,
                               result |-> PieceErr("PieceUnavailable")])
                        /\ requesterPc' = "work"
                        /\ UNCHANGED <<piece_work, delivered, out_of_order>>
    /\ UNCHANGED <<startVars, socket, wire, listVars, state, outstanding, restVars>>

\* if let Some(mut work) = piece_work.take() { .. } and the sleep
RequesterWork ==
    /\ requesterPc = "work"
    /\ IF piece_work = None
       THEN /\ UNCHANGED <<piece_work, piece_tx, block_rx, wire, outstanding,
                           delivered, out_of_order>>
       ELSE IF is_complete(piece_work)
       THEN /\ Len(piece_tx) < ResultChannelCapacity
            /\ piece_tx' = Append(piece_tx, to_piece_response(piece_work))
            /\ piece_work' = None
            /\ UNCHANGED <<block_rx, wire, outstanding, delivered, out_of_order>>
       ELSE LET filled == Drain(piece_work.blocks, block_rx)
                sel == IF Choked(state) THEN {} ELSE NextBlocks(filled)
                written == ~Choked(state) /\ socket = "open"
            IN  /\ block_rx' = <<>>
                /\ delivered' = delivered \cup { block_rx[k].begin : k \in 1 .. Len(block_rx) }
                /\ out_of_order' = (out_of_order \/ DrainOutOfOrder(piece_work.blocks, block_rx))
                /\ piece_work' = [piece_work EXCEPT !.blocks = MarkInProgress(filled, sel)]
                /\ wire' = IF written
                           THEN wire \o send_request_bytes(piece_work.index, filled, sel)
                           ELSE wire
                /\ outstanding' =
                       IF written
                       THEN outstanding \cup
                              { Request(piece_work.index, filled[k].offset, filled[k].length) :
                                    k \in sel }
                       ELSE outstanding
                /\ UNCHANGED piece_tx
    /\ requesterPc' = "snapshot"
    /\ UNCHANGED <<startVars, socket, peer_state, listenerPc, state, piece_queue,
                   restVars>>

\* ---- the session as a whole --------------------------------------------

\* Largest number of piece requests in the queue handed to start
MaxQueue == 2

\* The piece requests the caller may queue: pieces of three blocks (40 000
\* bytes), of exactly one block, and of no bytes at all
PieceRequestInputs ==
    { [piece_index |-> 0, length_bytes |-> 40000],
      [piece_index |-> 1, length_bytes |-> 16384],
      [piece_index |-> 2, length_bytes |-> 0] }

\* A piece of six blocks: five full ones and one byte
LargePieceRequest == [piece_index |-> 3, length_bytes |-> 81921]

QueueInputs ==
    { q \in SeqsUpTo(PieceRequestInputs, MaxQueue) :
        \A i, j \in 1 .. Len(q) : i # j => q[i].piece_index # q[j].piece_index }

SessionInit ==
    /\ CodecIdle /\ HasPieceIdle /\ PeerListIdle /\ ControllerIdle
    /\ startPc = "connect"
    /\ start_result = NoResult
    /\ socket = "none"
    /\ handshake_response = <<>>
    /\ wire = <<>>
    /\ peer_state = NewPeerState
    /\ listenerPc = "none"
    /\ block_rx = <<>>
    /\ requesterPc = "none"
    /\ state = None
    /\ piece_work = None
    /\ \/ piece_queue \in QueueInputs /\ peer_reorders = TRUE
       \/ piece_queue = << LargePieceRequest >> /\ peer_reorders = FALSE
    /\ piece_tx = <<>>
    /\ outstanding = {}
    /\ delivered = {}
    /\ out_of_order = FALSE

SessionNext ==
    \/ StartConnect
    \/ StartSendHandshake
    \/ StartReadHandshake
    \/ StartSendInterested
    \/ StartSendUnchoke
    \/ StartSpawnListener
    \/ StartSpawnRequester
    \/ ListenerRecv
    \/ ListenerRecvPiece
    \/ ListenerReadFails
    \/ PeerClose
    \/ RequesterSnapshot
    \/ RequesterFetch
    \/ RequesterWork

SpecSession == SessionInit /\ [][SessionNext]_vars

\* ------------------------------------------------------------------------
\* Claims about the peer session
\* ------------------------------------------------------------------------

IsPrefix(a, b) == Len(a) <= Len(b) /\ SubSeq(b, 1, Len(a)) = a

\* C4: start returns Ok only when the handshake succeeded and both tasks were
\* spawned; when a step of the prologue fails or bytes 28..48 of the received
\* handshake differ from the local info hash, start returns Err, the socket
\* is dropped, neither task is spawned and, for the mismatch, no Interested
\* or Unchoke is sent.
C4_StartResult ==
    /\ start_result.tag = "Ok" =>
          /\ Len(handshake_response) = 68
          /\ \A k \in 1 .. 20 : handshake_response[28 + k] = info_hash[k]
          /\ listenerPc # "none"
          /\ requesterPc # "none"
    /\ start_result.tag = "Err" =>
          /\ listenerPc = "none"
          /\ requesterPc = "none"
          /\ socket # "open"
          /\ start_result.why = "connect" => socket = "none" /\ wire = <<>>
    /\ (listenerPc # "none" \/ requesterPc # "none") => start_result.tag # "Err"
    /\ (Len(handshake_response) = 68
            /\ \E k \in 1 .. 20 : handshake_response[28 + k] # info_hash[k]) =>
          /\ start_result = StartErr("info_hash")
          /\ Len(wire) = 68

\* C4 witness: the peer answered with the info hash ZZZZZZZZZZZZZZZZZZZZ and
\* start returned the mismatch error with the socket closed.
C4_Witness ==
    /\ start_result = StartErr("info_hash")
    /\ SubSeq(handshake_response, 29, 48) = [k \in 1..20 |-> 90]
    /\ socket = "closed"
    /\ listenerPc = "none"

\* The 68 handshake bytes of the session: 19, "BitTorrent protocol", eight
\* zero bytes, the info hash "12345678901234567890", the peer id
\* "-TEST0-1234567890123"
ExpectedHandshake ==
    << 19,
       66, 105, 116, 84, 111, 114, 114, 101, 110, 116, 32,
       112, 114, 111, 116, 111, 99, 111, 108,
       0, 0, 0, 0, 0, 0, 0, 0,
       49, 50, 51, 52, 53, 54, 55, 56, 57, 48, 49, 50, 51, 52, 53, 54, 55, 56, 57, 48,
       45, 84, 69, 83, 84, 48, 45, 49, 50, 51, 52, 53, 54, 55, 56, 57, 48, 49, 50, 51 >>

\* The ids of the length-prefixed frames in a byte string, in order (a
\* keep-alive counts as -1, a frame cut short ends the list with -2)
RECURSIVE FrameIds(_)
FrameIds(bytes) ==
    IF bytes = <<>> THEN <<>>
    ELSE IF Len(bytes) < 4 THEN << -2 >>
    ELSE LET n == BEValue(SubSeq(bytes, 1, 4))
         IN  IF n = 0 THEN << -1 >> \o FrameIds(SubSeq(bytes, 5, Len(bytes)))
             ELSE IF Len(bytes) < 4 + n THEN << -2 >>
             ELSE << bytes[5] >> \o FrameIds(SubSeq(bytes, 5 + n, Len(bytes)))

\* C5: on the wire of one session the 68-byte handshake comes first,
\* Interested is written only after 68 bytes were read and the info hash
\* verified, Unchoke follows Interested, the listener and the requester run
\* only after both, and every Request comes after Interested and Unchoke.
C5_StartupOrder ==
    /\ IsPrefix(wire, ExpectedHandshake) \/ IsPrefix(ExpectedHandshake, wire)
    /\ Len(wire) \in 1 .. 67 => FALSE
    /\ Len(wire) > 68 =>
          /\ Len(handshake_response) = 68
          /\ SubSeq(handshake_response, 29, 48) = SubSeq(ExpectedHandshake, 29, 48)
    /\ Len(wire) >= 68 =>
          LET ids == FrameIds(SubSeq(wire, 69, Len(wire)))
          IN  \A k \in 1 .. Len(ids) :
                 ids[k] = (IF k = 1 THEN 2 ELSE IF k = 2 THEN 1 ELSE 6)
    /\ (listenerPc # "none" \/ requesterPc # "none") =>
          /\ Len(wire) >= 78
          /\ SubSeq(wire, 69, 78) = << 0, 0, 0, 1, 2, 0, 0, 0, 1, 1 >>

\* C5 witness: start returned Ok and the requester has written a Request.
C5_Witness ==
    /\ start_result.tag = "Ok"
    /\ Len(wire) >= 78 + 17
    /\ wire[78 + 5] = 6

\* The number of blocks of a piece of L bytes
BlockCount(L) == (L + 16383) \div 16384

\* The length of block k (counted from 1) of a piece of L bytes
BlockLength(L, k) ==
    IF k < BlockCount(L) THEN 16384
    ELSE IF L % 16384 = 0 THEN 16384 ELSE L % 16384

RECURSIVE SumLengths(_)
SumLengths(blocks) ==
    IF blocks = <<>> THEN 0 ELSE Head(blocks).length + SumLengths(Tail(blocks))

\* The PieceWork built from a request of `work.length` bytes, as specified
FreshLayout(work) ==
    /\ Len(work.blocks) = BlockCount(work.length)
    /\ \A k \in 1 .. Len(work.blocks) :
          /\ work.blocks[k].offset = 16384 * (k - 1)
          /\ work.blocks[k].length = BlockLength(work.length, k)
          /\ work.blocks[k].length <= 16384
          /\ work.blocks[k].status = "Empty"
    /\ SumLengths(work.blocks) = work.length

SameLayout(a, b) ==
    /\ a.index = b.index
    /\ a.length = b.length
    /\ Len(a.blocks) = Len(b.blocks)
    /\ \A k \in 1 .. Len(a.blocks) :
          /\ a.blocks[k].offset = b.blocks[k].offset
          /\ a.blocks[k].length = b.blocks[k].length

\* C7: the PieceWork built from a request of length L has ceil(L/16384)
\* blocks in order, block k at offset 16384*k, all of length 16384 but the
\* last (L mod 16384, or 16384 for a multiple), all Empty, lengths summing
\* to L and none above 16384; offsets and lengths never change afterwards.
C7_BlockLayout ==
    [][ /\ (piece_work = None /\ piece_work' # None) =>
              /\ FreshLayout(piece_work')
              /\ \E q \in 1 .. Len(piece_queue) :
                    /\ piece_work'.index = piece_queue[q].piece_index
                    /\ piece_work'.length = piece_queue[q].length_bytes
        /\ (piece_work # None /\ piece_work' # None) => SameLayout(piece_work, piece_work')
      ]_vars

\* C7 witness: the work of the 40 000-byte piece holds blocks of 16 384,
\* 16 384 and 7 232 bytes and has gone through requests and a response.
C7_Witness ==
    /\ piece_work # None
    /\ piece_work.length = 40000
    /\ Len(piece_work.blocks) = 3
    /\ piece_work.blocks[3].length = 7232
    /\ piece_work.blocks[3].status = "Full"
    /\ piece_work.blocks[1].status = "InProgress"

\* C8 (as claimed): at most MAX_IN_FLIGHT = 5 blocks of the requester's
\* current piece are InProgress, in every reachable state.
C8_InFlightBound ==
    piece_work # None =>
        Cardinality({ k \in 1 .. Len(piece_work.blocks) :
                        piece_work.blocks[k].status = "InProgress" }) <= 5

\* The length of the piece a response is about, from the queued requests
RequestedLength(index) ==
    (CHOOSE r \in PieceRequestInputs \cup { LargePieceRequest } :
        r.piece_index = index).length_bytes

\* The content of piece `index` of L bytes, block after block in ascending
\* offset order
ExpectedBytes(index, L) ==
    Flatten([k \in 1 .. BlockCount(L) |->
                ContentSegment(index, 16384 * (k - 1), BlockLength(L, k))])

\* C9: once one block response per block offset of the current piece was
\* delivered, in whatever order, the piece is complete, and the assembled
\* bytes are the block data in ascending offset order, L bytes in all.
C9_AssemblyAnyOrder ==
    /\ (piece_work # None
          /\ delivered = { piece_work.blocks[k].offset : k \in 1 .. Len(piece_work.blocks) })
        => \A k \in 1 .. Len(piece_work.blocks) : piece_work.blocks[k].status = "Full"
    /\ \A i \in 1 .. Len(piece_tx) :
          LET r == piece_tx[i]
              L == RequestedLength(r.piece_index)
          IN  /\ r.result # PieceErr("InvalidData")
              /\ r.result.tag = "Ok" =>
                    /\ r.result.val = ExpectedBytes(r.piece_index, L)
                    /\ DataLen(r.result.val) = L

\* C9 witness: the 40 000-byte piece was delivered as Ok although a block
\* response had arrived before that of a lower offset.
C9_Witness ==
    /\ piece_work = None
    /\ out_of_order
    /\ piece_tx # <<>>
    /\ piece_tx[Len(piece_tx)].piece_index = 0
    /\ piece_tx[Len(piece_tx)].result.tag = "Ok"
    /\ DataLen(piece_tx[Len(piece_tx)].result.val) = 40000

\* ------------------------------------------------------------------------
\* TrackerSession and the announce task (tracker.rs, torrent.rs:115-143)
\* ------------------------------------------------------------------------

\* Largest number of announce requests one run issues
MaxAnnounces == 2

\* Option::Some
Some(v) == [some |-> v]

Max(a, b) == IF a > b THEN a ELSE b

\* Time is counted in seconds.  Instant::now() is monotonic but not strictly
\* increasing: two readings one after the other may be equal, or the later
\* one may lie one second on.  A timer fires at its deadline or later.
Elapsed == { 0, 1 }

\* The seconds an HTTP exchange with the tracker takes: never none
RequestDurations == { 1, 2 }

\* Duration::from_secs(5)
RetryDelay == 5

\* ---- TrackerRequest ----
\* A String is a sequence of atoms.  An atom is either one character that
\* the form encoding does not leave alone, or a run of characters it does
\* (ASCII letters and digits, '*', '-', '.', '_').

\* The characters escaped as %XX in the strings modelled, with their codes
PercentCode ==
    [c \in { "&", "=", "%", "+", "/", ":" } |->
        CASE c = "&" -> "26" [] c = "=" -> "3D" [] c = "%" -> "25"
          [] c = "+" -> "2B" [] c = "/" -> "2F" [] c = ":" -> "3A"]

\* form_urlencoded::byte_serialize, as serde_urlencoded applies it to every
\* key and value: a space becomes '+', an escaped character '%' and its code
FormEncode(text) ==
    Flatten([k \in 1 .. Len(text) |->
        IF text[k] = " " THEN << "+" >>
        ELSE IF text[k] \in DOMAIN PercentCode THEN << "%", PercentCode[text[k]] >>
        ELSE << text[k] >>])

\* request.event = Some(TrackerEvent::Stopped)
EventStopped == Some("stopped")

\* request.event = Some(TrackerEvent::Started)
EventStarted == Some("started")

\* TrackerRequest::new
TrackerRequest_new(hash, id) ==
    [info_hash |-> hash, peer_id |-> id, port |-> 6882, uploaded |-> 0,
     downloaded |-> 0, left |-> 0, event |-> Some("started"), compact |-> None,
     no_peer_id |-> None, ip |-> None, numwant |-> 50, key |-> None,
     trackerid |-> None]

\* The fields #[derive(Serialize)] hands to the serializer, in declaration
\* order, each with the text of its value or None; info_hash is skipped
\* (#[serde(skip_serializing)])
SerializedFields(r) ==
    LET num(n) == Some(<< ToString(n) >>)
        opt(o, text(_)) == IF o = None THEN None ELSE Some(text(o.some))
        number(n) == << ToString(n) >>
        bool(b) == << IF b THEN "true" ELSE "false" >>
        str(t) == t
        unit(v) == << v >>
    IN  << << "peer_id", Some(r.peer_id) >>,
           << "port", num(r.port) >>,
           << "uploaded", num(r.uploaded) >>,
           << "downloaded", num(r.downloaded) >>,
           << "left", num(r.left) >>,
           << "compact", opt(r.compact, number) >>,
           << "no_peer_id", opt(r.no_peer_id, bool) >>,
           << "numwant", num(r.numwant) >>,
           << "event", opt(r.event, unit) >>,
           << "ip", opt(r.ip, str) >>,
           << "key", opt(r.key, str) >>,
           << "trackerid", opt(r.trackerid, str) >> >>

\* serde_urlencoded::to_string: the pairs key=value of the fields that are
\* not None, joined with '&'
RECURSIVE urlencoded_to_string(_)
urlencoded_to_string(fields) ==
    IF fields = <<>> THEN <<>>
    ELSE LET rest == urlencoded_to_string(Tail(fields))
             key == Head(fields)[1]
             value == Head(fields)[2]
         IN  IF value = None THEN rest
             ELSE FormEncode(<< key >>) \o << "=" >> \o FormEncode(value.some)
                    \o (IF rest = <<>> THEN <<>> ELSE << "&" >> \o rest)

\* An info hash that goes through the form encoding once more
InfoHashEncodedAgain(hash) == FormEncode(hash)

\* encoded.push_str(self.info_hash.as_str())
InfoHashAsStr(hash) == hash

\* TrackerRequest::to_query_string
to_query_string(r) ==
    urlencoded_to_string(SerializedFields(r))
        \o << "&", "info_hash", "=" >> \o InfoHashAsStr(r.info_hash)

\* The info hash and the peer id of the session, as the strings the caller
\* hands to TrackerSession::new (the values of test_to_query_string, the
\* hash shortened)
SessionInfoHash == << "%", "DA", "%", "BFr", "%", "01", "%", "9D" >>
SessionPeerId == << "-RS0001-kONXltkhXIr5" >>

\* TrackerSession::new at time `now`
NewTrackerSession(now) ==
    [started |-> FALSE, info_hash |-> SessionInfoHash, peer_id |-> SessionPeerId,
     interval |-> 0, min_interval |-> None, next_announce |-> now,
     downloaded |-> 0, uploaded |-> 0, left |-> 0, event |-> None,
     peer_list |-> <<>>]

\* TrackerSession::create_request
create_request(session) ==
    [TrackerRequest_new(session.info_hash, session.peer_id) EXCEPT
        !.event = EventStarted,
        !.uploaded = session.uploaded,
        !.downloaded = session.downloaded,
        !.left = session.left]

\* A decoded TrackerResponse without a failure reason: the fields that
\* update reads
TrackerResponse(interval, min_interval, peers) ==
    [failure_reason |-> None, interval |-> interval, min_interval |-> min_interval,
     peers |-> peers]

\* The same response with the key `failure reason`
WithFailureReason(response) ==
    [response EXCEPT !.failure_reason = Some("torrent not registered")]

\* The responses a tracker answers with: the usual one, one with interval 0,
\* one without any of the keys, one with a short interval, a min interval
\* and a dictionary peer list, one that carries a failure reason and nothing
\* else, and one that carries a failure reason next to an interval, a min
\* interval and peers
ResponseInputs ==
    { WithFailureReason(TrackerResponse(None, None, None)),
      WithFailureReason(TrackerResponse(Some(900), Some(30),
          Some([kind |-> "Compact", items |-> <<10, 0, 0, 9, 26, 225>>]))) } \cup
    { TrackerResponse(Some(1800), None,
          Some([kind |-> "Compact",
                items |-> <<10, 0, 0, 1, 26, 225, 10, 0, 0, 2, 26, 226>>])),
      TrackerResponse(Some(0), None, None),
      TrackerResponse(None, None, None),
      TrackerResponse(Some(3), Some(60),
          Some([kind |-> "Dict",
                dicts |-> << [peer_id |-> "-MOCK0-1234567890123",
                              ip |-> "10.0.0.1", port |-> 6881] >>])) }

\* A deadline that leaves the interval out
NextAnnounceNow(now, interval) == now

\* Instant::now() + self.interval
NextAnnounce(now, interval) == now + interval

\* TrackerSession::update from the decoded response on, `now` being the
\* reading of Instant::now() it takes
update(session, response, now) ==
    LET interval == IF response.interval # None THEN response.interval.some
                    ELSE session.interval
    IN  [session EXCEPT
            !.peer_list = IF response.peers # None THEN peers_from(response.peers.some)
                          ELSE @,
            !.interval = interval,
            !.next_announce = NextAnnounce(now, interval),
            !.min_interval = IF response.min_interval # None
                             THEN Some(response.min_interval.some) ELSE @]

\* The wait_time block of the announce loop, `now` being its clock reading
WaitTime(next_announce, now) ==
    IF next_announce < now THEN now + RetryDelay ELSE next_announce

\* The announce task has just been spawned by Torrent::start, on a torrent
\* loaded at time 0 that was or was not started before
AnnounceInit ==
    /\ CodecIdle /\ HasPieceIdle /\ PeerListIdle /\ SessionIdle /\ TorrentIdle
    /\ LoadIdle /\ PieceManagerIdle /\ MoreIdle
    /\ annPc = "check"
    /\ clock = 0
    /\ tracker \in { NewTrackerSession(0),
                     [NewTrackerSession(0) EXCEPT !.started = TRUE] }
    /\ wait_time = 0
    /\ announces = 0
    /\ last = None
    /\ sent = <<>>

\* if session.started { return; } session.started = true;
AnnounceCheckStarted ==
    /\ annPc = "check"
    /\ IF tracker.started
       THEN annPc' = "returned" /\ UNCHANGED tracker
       ELSE annPc' = "update" /\ tracker' = [tracker EXCEPT !.started = TRUE]
    /\ UNCHANGED <<clock, wait_time, announces, last, sent, nonAnnVars>>

\* The loop takes the lock and update sends the request
AnnounceSend ==
    /\ annPc = "update"
    /\ announces < MaxAnnounces
    /\ \E d \in Elapsed : clock' = clock + d
    /\ tracker' = [tracker EXCEPT !.started = TRUE]
    /\ announces' = announces + 1
    /\ sent' = Append(sent, create_request(tracker))
    /\ annPc' = "awaiting"
    /\ UNCHANGED <<wait_time, last, nonAnnVars>>

\* The response arrives and decodes: update returns Ok, and the loop
\* computes wait_time
UpdateOk ==
    /\ annPc = "awaiting"
    /\ \E response \in ResponseInputs, d1 \in RequestDurations, d2 \in Elapsed :
          LET completed == clock + d1
              session == update(tracker, response, completed)
              now == completed + d2
          IN  /\ tracker' = session
              /\ wait_time' = WaitTime(session.next_announce, now)
              /\ clock' = now
              /\ last' = [result |-> "Ok", response |-> response,
                          interval_before |-> tracker.interval,
                          completed_at |-> completed, checked_at |-> now]
    /\ annPc' = "sleeping"
    /\ UNCHANGED <<announces, sent, nonAnnVars>>

\* The request or the decoding fails: update returns Err before it changed
\* the session, the loop prints the error and computes wait_time
UpdateErr ==
    /\ annPc = "awaiting"
    /\ \E d1 \in RequestDurations :
          LET now == clock + d1
          IN  /\ wait_time' = WaitTime(tracker.next_announce, now)
              /\ clock' = now
              /\ last' = [result |-> "Err", response |-> None,
                          interval_before |-> tracker.interval,
                          completed_at |-> now, checked_at |-> now]
    /\ annPc' = "sleeping"
    /\ UNCHANGED <<tracker, announces, sent, nonAnnVars>>

\* tokio::time::sleep_until(wait_time).await returns
AnnounceWake ==
    /\ annPc = "sleeping"
    /\ \E d \in Elapsed : clock' = Max(clock, wait_time) + d
    /\ annPc' = "update"
    /\ UNCHANGED <<tracker, wait_time, announces, last, sent, nonAnnVars>>

AnnounceNext ==
    \/ AnnounceCheckStarted
    \/ AnnounceSend
    \/ UpdateOk
    \/ UpdateErr
    \/ AnnounceWake

SpecAnnounce == AnnounceInit /\ [][AnnounceNext]_vars

C13_RetryAfterFiveSeconds ==
    annPc = "sleeping" =>
        /\ (last.result = "Err" \/ tracker.next_announce <= last.checked_at)
              => wait_time = last.checked_at + 5
        /\ wait_time > last.checked_at

\* C25 (as claimed): an announce whose response carries a failure reason
\* counts as failed, and the session's peer list, interval and min_interval
\* are after it what they were before it.
C25_FailureReasonIgnoresOtherKeys ==
    [][(annPc = "awaiting" /\ annPc' = "sleeping" /\ last'.response # None
          /\ last'.response.failure_reason # None)
        => /\ last'.result = "Err"
           /\ tracker'.peer_list = tracker.peer_list
           /\ tracker'.interval = tracker.interval
           /\ tracker'.min_interval = tracker.min_interval]_vars

\* ------------------------------------------------------------------------
\* TrackerRequest::to_query_string (tracker.rs:115-142)
\* ------------------------------------------------------------------------

\* The requests whose query string is built: a new request, with each of
\* its optional parameters absent or present, peer ids and keys that hold
\* characters the encoding escapes, and an IPv4 and an IPv6 address
RequestInputs ==
    { [TrackerRequest_new(SessionInfoHash, id) EXCEPT
          !.left = left, !.compact = compact, !.no_peer_id = no_peer_id,
          !.event = event, !.ip = ip, !.key = key, !.trackerid = trackerid] :
        id \in { SessionPeerId, << "-RS", "&", "info_hash", "=", "x", " ", "y" >> },
        left \in { 0, 40000 },
        compact \in { None, Some(1) },
        no_peer_id \in { None, Some(TRUE) },
        event \in { None, Some("started"), Some("stopped"), Some("completed") },
        ip \in { None, Some(<< "10.0.0.1" >>), Some(<< ":", ":", "1" >>) },
        key \in { None, Some(<< "k", "=", "v" >>) },
        trackerid \in { None, Some(<< "id", "/", "7" >>) } }

QueryInit ==
    /\ CodecIdle /\ HasPieceIdle /\ PeerListIdle /\ SessionIdle
    /\ AnnounceIdle /\ TorrentIdle /\ LoadIdle /\ PieceManagerIdle
    /\ FilesIdle /\ heard = None /\ LocksIdle
    /\ request \in RequestInputs
    /\ query_string = <<>>

\* request.to_query_string()
ToQueryString ==
    /\ request # None
    /\ query_string = <<>>
    /\ query_string' = to_query_string(request)
    /\ UNCHANGED <<request, codecVars, hpVars, plVars, sessVars, annVars, torVars,
                   loadVars, pm_got, fileVars, heard, lockVars>>

QueryNext == ToQueryString

SpecQuery == QueryInit /\ [][QueryNext]_vars

\* The position of the first atom `sep` of a text, Len + 1 if it has none
FirstAt(text, sep) ==
    LET at == { k \in 1 .. Len(text) : text[k] = sep }
    IN  IF at = {} THEN Len(text) + 1 ELSE CHOOSE k \in at : \A j \in at : k <= j

\* A query string as a tracker reads it: split at every '&', and each part
\* at its first '='
RECURSIVE QueryParams(_)
QueryParams(q) ==
    IF q = <<>> THEN <<>>
    ELSE LET amp == FirstAt(q, "&")
             part == SubSeq(q, 1, amp - 1)
             eq == FirstAt(part, "=")
         IN  << [name |-> SubSeq(part, 1, eq - 1),
                 value |-> SubSeq(part, eq + 1, Len(part))] >>
                 \o QueryParams(SubSeq(q, amp + 1, Len(q)))

\* The decoding of a form-encoded value
RECURSIVE FormDecode(_)
FormDecode(text) ==
    IF text = <<>> THEN <<>>
    ELSE IF Head(text) = "+" THEN << " " >> \o FormDecode(Tail(text))
    ELSE IF Head(text) = "%" /\ Len(text) >= 2
    THEN << CHOOSE c \in DOMAIN PercentCode : PercentCode[c] = text[2] >>
            \o FormDecode(SubSeq(text, 3, Len(text)))
    ELSE << Head(text) >> \o FormDecode(Tail(text))

\* The values, decoded, of the parameters of that name
ParamValues(q, name) ==
    LET ps == QueryParams(q)
    IN  { FormDecode(ps[k].value) : k \in { j \in 1 .. Len(ps) : ps[j].name = << name >> } }

\* The number of parameters of that name
ParamCount(q, name) ==
    LET ps == QueryParams(q)
    IN  Cardinality({ k \in 1 .. Len(ps) : ps[k].name = << name >> })

\* C23: the query string carries peer_id, port, uploaded, downloaded, left
\* and numwant once each with their values, each optional parameter
\* (compact, no_peer_id, event, ip, key, trackerid) once if it is present and
\* not at all if it is absent, and nothing else but info_hash, which comes
\* exactly once, as the last parameter, with exactly the text the request
\* holds; the request TrackerRequest::new builds has port 6882 and numwant 50.
C23_QueryString ==
    query_string # <<>> =>
        LET q == query_string
            ps == QueryParams(q)
            optional == { "compact", "no_peer_id", "event", "ip", "key", "trackerid" }
            present == { f \in optional : request[f] # None }
        IN  /\ \A f \in { "peer_id", "port", "uploaded", "downloaded", "left", "numwant" } :
                  ParamCount(q, f) = 1
            /\ ParamValues(q, "peer_id") = { request.peer_id }
            /\ ParamValues(q, "port") = { << "6882" >> }
            /\ ParamValues(q, "numwant") = { << "50" >> }
            /\ ParamValues(q, "uploaded") = { << ToString(request.uploaded) >> }
            /\ ParamValues(q, "downloaded") = { << ToString(request.downloaded) >> }
            /\ ParamValues(q, "left") = { << ToString(request.left) >> }
            /\ \A f \in optional : ParamCount(q, f) = (IF f \in present THEN 1 ELSE 0)
            /\ "compact" \in present =>
                  ParamValues(q, "compact") = { << ToString(request.compact.some) >> }
            /\ "no_peer_id" \in present =>
                  ParamValues(q, "no_peer_id") =
                      { << IF request.no_peer_id.some THEN "true" ELSE "false" >> }
            /\ "event" \in present => ParamValues(q, "event") = { << request.event.some >> }
            /\ \A f \in { "ip", "key", "trackerid" } \cap present :
                  ParamValues(q, f) = { request[f].some }
            /\ Len(ps) = 6 + Cardinality(present) + 1
            /\ ParamCount(q, "info_hash") = 1
            /\ ps[Len(ps)].name = << "info_hash" >>
            /\ ps[Len(ps)].value = request.info_hash
            /\ SubSeq(q, Len(q) - Len(request.info_hash) + 1, Len(q)) = request.info_hash

\* C23 witness: the query string of a request with every optional parameter
\* present and a peer id that holds '&', '=' and a space has been built.
C23_Witness ==
    /\ query_string # <<>>
    /\ \A f \in { "compact", "no_peer_id", "event", "ip", "key", "trackerid" } :
          request[f] # None
    /\ request.peer_id # SessionPeerId
    /\ Len(QueryParams(query_string)) = 13

\* C24: the first announce request a tracker session issues carries
\* event=started, in the request built and in the query string sent.
C24_FirstAnnounceStarted ==
    sent # <<>> =>
        /\ sent[1].event = Some("started")
        /\ ParamValues(to_query_string(sent[1]), "event") = { << "started" >> }

\* C24 witness: the announce task of a torrent that was not started before
\* has issued its first request and waits for the answer.
C24_Witness ==
    /\ Len(sent) = 1
    /\ announces = 1
    /\ annPc = "awaiting"

\* ------------------------------------------------------------------------
\* The torrent controller: Torrent::start and the tasks it spawns
\* (torrent.rs:113-221, piece_manager.rs)
\* ------------------------------------------------------------------------

\* Largest number of calls of Torrent::start
MaxStarts == 2

\* let max_peers = 10
max_peers == 10

\* A peer list one longer than max_peers; peers are named by numbers
ManyPeers == [k \in 1 .. max_peers + 1 |-> k]

\* The torrents loaded: three pieces with a short last one, two whole pieces
MetaInfoInputs ==
    { [piece_length |-> 16384, length |-> 40000],
      [piece_length |-> 16384, length |-> 32768] }

\* A flag that is never seen set
NeverStarted(flag) == FALSE

\* if session.started
AlreadyStarted(flag) == flag

\* What is left of a task when a task it awaits inline panics or fails
AwaitedInline(pc) == "stopped"

\* What is left of a task when a task it spawned with tokio::spawn panics
\* or returns an error: the JoinHandle takes the outcome, the spawner goes on
Spawned(pc) == pc

Elems(seq) == { seq[i] : i \in 1 .. Len(seq) }

torEnv == <<tracker_peers, peers_respond, metainfo>>

\* Torrent::load has run; the application calls start once or more.  The
\* tracker knows no peer, one or two peers that answer, or max_peers + 1
\* peers whose connections stay pending
TorrentInit ==
    /\ CodecIdle /\ HasPieceIdle /\ PeerListIdle /\ SessionIdle /\ AnnounceIdle
    /\ LoadIdle /\ PieceManagerIdle /\ MoreIdle
    /\ metainfo \in MetaInfoInputs
    /\ \/ calls_left \in 1 .. MaxStarts /\ tracker_peers \in { <<>>, <<1>> }
          /\ peers_respond = TRUE
       \/ calls_left = 1 /\ tracker_peers = <<1, 2>> /\ peers_respond = TRUE
       \/ calls_left = 1 /\ tracker_peers = ManyPeers /\ peers_respond = FALSE
    /\ started = FALSE
    /\ known_peers = <<>>
    /\ tracker_lock = 0
    /\ announcers = <<>> /\ work_queues = <<>> /\ result_channels = <<>>
    /\ piece_managers = <<>> /\ reconcilers = <<>> /\ active_peers = <<>>
    /\ sessions = <<>>
    /\ reconciler_locks = <<>>

\* The reconciler at the top of its loop holds no mutex
AtLoopTop == [pc |-> "top", held |-> <<>>]

\* No task holds the tracker session mutex
TrackerFree ==
    /\ tracker_lock = 0
    /\ \A j \in 1 .. Len(reconciler_locks) :
          \A i \in 1 .. Len(reconciler_locks[j].held) :
             reconciler_locks[j].held[i] # "tracker"

\* Torrent::start: spawns the announce task, creates the work queue and the
\* result channel, spawns the piece manager and the peer-pool reconciler
TorrentStart ==
    /\ calls_left > 0
    /\ calls_left' = calls_left - 1
    /\ announcers' = Append(announcers, "check")
    /\ work_queues' = Append(work_queues, <<>>)
    /\ result_channels' = Append(result_channels, <<>>)
    /\ piece_managers' = Append(piece_managers, "waiting")
    /\ reconcilers' = Append(reconcilers, "running")
    /\ active_peers' = Append(active_peers, {})
    /\ sessions' = Append(sessions, <<>>)
    /\ reconciler_locks' = Append(reconciler_locks, AtLoopTop)
    /\ UNCHANGED <<torEnv, started, known_peers, tracker_lock, nonTorVars>>

\* The announce task, first block: return if started, else set the flag
AnnouncerCheck(k) ==
    /\ announcers[k] = "check"
    /\ TrackerFree
    /\ IF AlreadyStarted(started)
       THEN /\ announcers' = [announcers EXCEPT ![k] = "returned"]
            /\ UNCHANGED started
       ELSE /\ announcers' = [announcers EXCEPT ![k] = "loop"]
            /\ started' = TRUE
    /\ UNCHANGED <<calls_left, torEnv, known_peers, tracker_lock, work_queues,
                   result_channels, piece_managers, reconcilers, active_peers,
                   sessions, reconciler_locks,
                   nonTorVars>>

\* The announce loop takes the tracker lock and sends the announce request
AnnouncerLock(k) ==
    /\ announcers[k] = "loop"
    /\ TrackerFree
    /\ tracker_lock' = k
    /\ started' = TRUE
    /\ announcers' = [announcers EXCEPT ![k] = "in_flight"]
    /\ UNCHANGED <<calls_left, torEnv, known_peers, work_queues, result_channels,
                   piece_managers, reconcilers, active_peers, sessions, reconciler_locks,
                   nonTorVars>>

\* update returns: the peer list is replaced if the response carried one;
\* the lock is released and the loop sleeps until its next turn
AnnouncerUpdate(k) ==
    /\ announcers[k] = "in_flight"
    /\ known_peers' \in { known_peers, tracker_peers }
    /\ tracker_lock' = 0
    /\ announcers' = [announcers EXCEPT ![k] = "loop"]
    /\ UNCHANGED <<calls_left, torEnv, started, work_queues, result_channels,
                   piece_managers, reconcilers, active_peers, sessions, reconciler_locks,
                   nonTorVars>>

\* The reconciler loop takes the active-peers mutex at the top of its body
ReconcilerLockPeers(k) ==
    /\ reconcilers[k] = "running"
    /\ reconciler_locks[k].pc = "top"
    /\ reconciler_locks' = [reconciler_locks EXCEPT ![k] =
           [pc |-> "tracker", held |-> Append(@.held, "active_peers")]]
    /\ UNCHANGED <<calls_left, torEnv, started, known_peers, tracker_lock, announcers,
                   work_queues, result_channels, piece_managers, reconcilers,
                   active_peers, sessions, nonTorVars>>

\* let temp_tracker = tracker.lock().await, once the mutex is free
ReconcilerLockTracker(k) ==
    /\ reconcilers[k] = "running"
    /\ reconciler_locks[k].pc = "tracker"
    /\ TrackerFree
    /\ reconciler_locks' = [reconciler_locks EXCEPT ![k] =
           [pc |-> "snapshot", held |-> Append(@.held, "tracker")]]
    /\ UNCHANGED <<calls_left, torEnv, started, known_peers, tracker_lock, announcers,
                   work_queues, result_channels, piece_managers, reconcilers,
                   active_peers, sessions, nonTorVars>>

\* The rest of a turn of the reconciler loop: snapshot the peer list and let
\* go of the tracker mutex, remove the sessions whose handle is finished, and
\* if fewer than max_peers remain start a session for every known peer that
\* is not active; then the sleep, the active-peers guard still alive
ReconcilerWake(k) ==
    /\ reconcilers[k] = "running"
    /\ reconciler_locks[k].pc = "snapshot"
    /\ reconciler_locks' = [reconciler_locks EXCEPT ![k] =
           [pc |-> "sleep", held |-> SelectSeq(@.held, LAMBDA l : l # "tracker")]]
    /\ LET finished == { p \in active_peers[k] : sessions[k][p] # "connecting" }
           kept == active_peers[k] \ finished
           new == IF Cardinality(kept) < max_peers
                  THEN Elems(known_peers) \ kept ELSE {}
       IN  /\ active_peers' = [active_peers EXCEPT ![k] = kept \cup new]
           /\ sessions' = [sessions EXCEPT ![k] =
                  [p \in (DOMAIN sessions[k]) \cup new |->
                      IF p \in new THEN "connecting" ELSE sessions[k][p]]]
    /\ UNCHANGED <<calls_left, torEnv, started, known_peers, tracker_lock, announcers,
                   work_queues, result_channels, piece_managers, reconcilers,
                   nonTorVars>>

\* The sleep is over: the loop body ends and drops the active-peers guard
ReconcilerSleepDone(k) ==
    /\ reconcilers[k] = "running"
    /\ reconciler_locks[k].pc = "sleep"
    /\ reconciler_locks' = [reconciler_locks EXCEPT ![k] = AtLoopTop]
    /\ UNCHANGED <<calls_left, torEnv, started, known_peers, tracker_lock, announcers,
                   work_queues, result_channels, piece_managers, reconcilers,
                   active_peers, sessions, nonTorVars>>

\* PeerSession::start returns Err (connect, handshake or prologue failed)
\* or panics: the session task ends
SessionStartFails(k, p) ==
    /\ peers_respond
    /\ p \in DOMAIN sessions[k]
    /\ sessions[k][p] = "connecting"
    /\ sessions' = [sessions EXCEPT ![k][p] = "failed"]
    /\ reconcilers' = [reconcilers EXCEPT ![k] = Spawned(@)]
    /\ UNCHANGED <<calls_left, torEnv, started, known_peers, tracker_lock, announcers,
                   work_queues, result_channels, piece_managers, active_peers,
                   reconciler_locks,
                   nonTorVars>>

\* PeerSession::start returns Ok: listener and requester run detached and
\* the session task ends
SessionEstablished(k, p) ==
    /\ peers_respond
    /\ p \in DOMAIN sessions[k]
    /\ sessions[k][p] = "connecting"
    /\ sessions' = [sessions EXCEPT ![k][p] = "established"]
    /\ UNCHANGED <<calls_left, torEnv, started, known_peers, tracker_lock, announcers,
                   work_queues, result_channels, piece_managers, reconcilers,
                   active_peers, reconciler_locks,
                   nonTorVars>>

\* The listener of an established session panics in its unwrap or returns
\* an error, or its requester panics or fails on its channel
SessionTaskFails(k, p) ==
    /\ peers_respond
    /\ p \in DOMAIN sessions[k]
    /\ sessions[k][p] = "established"
    /\ sessions' = [sessions EXCEPT ![k][p] = "broken"]
    /\ reconcilers' = [reconcilers EXCEPT ![k] = Spawned(@)]
    /\ UNCHANGED <<calls_left, torEnv, started, known_peers, tracker_lock, announcers,
                   work_queues, result_channels, piece_managers, active_peers,
                   reconciler_locks,
                   nonTorVars>>

TorrentNext ==
    \/ TorrentStart
    \/ \E k \in 1 .. Len(announcers) : AnnouncerCheck(k)
    \/ \E k \in 1 .. Len(announcers) : AnnouncerLock(k)
    \/ \E k \in 1 .. Len(announcers) : AnnouncerUpdate(k)
    \/ \E k \in 1 .. Len(reconcilers) : ReconcilerLockPeers(k)
    \/ \E k \in 1 .. Len(reconcilers) : ReconcilerLockTracker(k)
    \/ \E k \in 1 .. Len(reconcilers) : ReconcilerWake(k)
    \/ \E k \in 1 .. Len(reconcilers) : ReconcilerSleepDone(k)
    \/ \E k \in 1 .. Len(sessions), p \in Elems(tracker_peers) : SessionStartFails(k, p)
    \/ \E k \in 1 .. Len(sessions), p \in Elems(tracker_peers) : SessionEstablished(k, p)
    \/ \E k \in 1 .. Len(sessions), p \in Elems(tracker_peers) : SessionTaskFails(k, p)

SpecTorrent == TorrentInit /\ [][TorrentNext]_vars

\* The announce tasks that are in the announce loop
AnnounceLoops ==
    { k \in 1 .. Len(announcers) : announcers[k] \in { "loop", "in_flight" } }

\* C14: for one tracker session, after any number of calls of start, at
\* most one announce task stays in the announce loop and at most one
\* announce request is in flight.
C14_OneAnnounceLoop ==
    /\ Cardinality(AnnounceLoops) <= 1
    /\ Cardinality({ k \in 1 .. Len(announcers) : announcers[k] = "in_flight" }) <= 1
    /\ tracker_lock # 0 => announcers[tracker_lock] = "in_flight"

\* C14 witness: start was called twice; one announce task returned at the
\* started flag and the other has an announce in flight.
C14_Witness ==
    /\ Len(announcers) = 2
    /\ \E k \in 1 .. 2 : announcers[k] = "returned"
    /\ \E k \in 1 .. 2 : announcers[k] = "in_flight"

\* C15 (as claimed): a second call of start is a no-op: it creates no
\* further announce loop, work queue, result channel, piece manager or
\* reconciler.
C15_SecondStartNoOp ==
    /\ Cardinality(AnnounceLoops) <= 1
    /\ Len(work_queues) <= 1
    /\ Len(result_channels) <= 1
    /\ Len(piece_managers) <= 1
    /\ Len(reconcilers) <= 1

\* C17 (as claimed): the active-peers map never holds more than
\* MAX_PEERS = 10 sessions.
C17_ActivePeersCap ==
    \A k \in 1 .. Len(active_peers) : Cardinality(active_peers[k]) <= 10

ExpectedRequests(mi) ==
    LET n == (mi.length + mi.piece_length - 1) \div mi.piece_length
    IN  [i \in 1 .. n |->
            [piece_index |-> i - 1,
             length_bytes |-> IF i < n \/ mi.length % mi.piece_length = 0
                              THEN mi.piece_length
                              ELSE mi.length % mi.piece_length]]

\* C19 (as claimed): after start the work queue holds one PieceRequest per
\* piece, in index order, of length piece_length except for the last one,
\* of length total_length mod piece_length when that is nonzero.
C19_QueuePopulated ==
    \A k \in 1 .. Len(work_queues) : work_queues[k] = ExpectedRequests(metainfo)

\* ------------------------------------------------------------------------
\* Torrent::load and the info hash (torrent.rs:71-111)
\* ------------------------------------------------------------------------
\* The bencode of the model has integers without sign, byte strings and
\* dictionaries.  A decoded value is a record [t, v]; the v of a dictionary
\* is the sequence of its entries [k, val], one per key.

BInt(n)   == [t |-> "int", v |-> n]
BBytes(b) == [t |-> "bytes", v |-> b]
BDict(es) == [t |-> "dict", v |-> es]

ParseFail == [ok |-> FALSE]
Parsed(val, next) == [ok |-> TRUE, val |-> val, next |-> next]

IsDigit(b) == b \in 48 .. 57

\* The decimal number starting at `pos`, and the position behind it
RECURSIVE ParseDigits(_, _, _)
ParseDigits(bytes, pos, acc) ==
    IF pos <= Len(bytes) /\ IsDigit(bytes[pos])
    THEN ParseDigits(bytes, pos + 1, 10 * acc + (bytes[pos] - 48))
    ELSE [val |-> acc, next |-> pos]

\* HashMap::insert: a later entry replaces an earlier one with the same key
MapInsert(entries, k, val) ==
    IF \E i \in 1 .. Len(entries) : entries[i].k = k
    THEN [i \in 1 .. Len(entries) |->
             IF entries[i].k = k THEN [k |-> k, val |-> val] ELSE entries[i]]
    ELSE Append(entries, [k |-> k, val |-> val])

\* serde_bencode::from_bytes into a Value: the value at `pos` and the
\* position behind it.  The order of the keys of a dictionary is not checked.
RECURSIVE ParseValue(_, _)
RECURSIVE ParseEntries(_, _, _)
ParseValue(bytes, pos) ==
    IF pos > Len(bytes) THEN ParseFail
    ELSE IF bytes[pos] = 105                                    \* i<digits>e
    THEN LET n == ParseDigits(bytes, pos + 1, 0)
         IN  IF n.next > pos + 1 /\ n.next <= Len(bytes) /\ bytes[n.next] = 101
             THEN Parsed(BInt(n.val), n.next + 1)
             ELSE ParseFail
    ELSE IF IsDigit(bytes[pos])                                 \* <len>:<bytes>
    THEN LET n == ParseDigits(bytes, pos, 0)
         IN  IF n.next <= Len(bytes) /\ bytes[n.next] = 58
                   /\ n.next + n.val <= Len(bytes)
             THEN Parsed(BBytes(SubSeq(bytes, n.next + 1, n.next + n.val)),
                         n.next + n.val + 1)
             ELSE ParseFail
    ELSE IF bytes[pos] = 100                                    \* d ... e
    THEN ParseEntries(bytes, pos + 1, <<>>)
    ELSE ParseFail

ParseEntries(bytes, pos, acc) ==
    IF pos > Len(bytes) THEN ParseFail
    ELSE IF bytes[pos] = 101 THEN Parsed(BDict(acc), pos + 1)
    ELSE LET key == ParseValue(bytes, pos)
         IN  IF ~key.ok \/ key.val.t # "bytes" THEN ParseFail
             ELSE LET val == ParseValue(bytes, key.next)
                  IN  IF ~val.ok THEN ParseFail
                      ELSE ParseEntries(bytes, val.next,
                                        MapInsert(acc, key.val.v, val.val))

\* serde_bencode::from_bytes::<Value>
bencode_from_bytes(bytes) ==
    LET r == ParseValue(bytes, 1)
    IN  IF r.ok /\ r.next = Len(bytes) + 1 THEN Ok(r.val) ELSE Err

\* The decimal digits of a number, as bytes
RECURSIVE DecimalBytes(_)
DecimalBytes(n) ==
    IF n < 10 THEN << 48 + n >>
    ELSE DecimalBytes(n \div 10) \o << 48 + (n % 10) >>

\* a < b for byte strings (Vec<u8> ordering)
RECURSIVE LexLess(_, _)
LexLess(a, b) ==
    IF b = <<>> THEN FALSE
    ELSE IF a = <<>> THEN TRUE
    ELSE IF Head(a) # Head(b) THEN Head(a) < Head(b)
    ELSE LexLess(Tail(a), Tail(b))

\* entries.sort_by(|a, b| a.0.cmp(&b.0)): the serializer writes the entries
\* of a dictionary in the order of their keys
RECURSIVE SortByKey(_)
SortByKey(entries) ==
    IF entries = <<>> THEN <<>>
    ELSE LET least == CHOOSE i \in 1 .. Len(entries) :
                 \A j \in 1 .. Len(entries) : j # i => LexLess(entries[i].k, entries[j].k)
         IN  << entries[least] >>
                 \o SortByKey([j \in 1 .. Len(entries) - 1 |->
                                  IF j < least THEN entries[j] ELSE entries[j + 1]])

\* serde_bencode::to_bytes of a Value
RECURSIVE bencode_to_bytes(_)
bencode_to_bytes(value) ==
    IF value.t = "int" THEN << 105 >> \o DecimalBytes(value.v) \o << 101 >>
    ELSE IF value.t = "bytes" THEN DecimalBytes(Len(value.v)) \o << 58 >> \o value.v
    ELSE LET es == SortByKey(value.v)
         IN  << 100 >>
                 \o Flatten([i \in 1 .. Len(es) |->
                        bencode_to_bytes(BBytes(es[i].k)) \o bencode_to_bytes(es[i].val)])
                 \o << 101 >>

\* The keys the load path looks up: "announce", "info", "length", "name",
\* "piece length", "pieces"
KeyAnnounce    == << 97, 110, 110, 111, 117, 110, 99, 101 >>
KeyInfo        == << 105, 110, 102, 111 >>
KeyLength      == << 108, 101, 110, 103, 116, 104 >>
KeyName        == << 110, 97, 109, 101 >>
KeyPieceLength == << 112, 105, 101, 99, 101, 32, 108, 101, 110, 103, 116, 104 >>
KeyPieces      == << 112, 105, 101, 99, 101, 115 >>

\* dict.get(key)
DictGet(dict, key) ==
    IF \E i \in 1 .. Len(dict.v) : dict.v[i].k = key
    THEN Some(dict.v[CHOOSE i \in 1 .. Len(dict.v) : dict.v[i].k = key].val)
    ELSE None

HasField(dict, key, type) ==
    LET f == DictGet(dict, key) IN f # None /\ f.some.t = type

\* MetaInfo::from_bytes: the top level is a dictionary with an announce
\* string and an info dictionary holding name, piece length, pieces and,
\* for a single file, length
metainfo_from_bytes(bytes) ==
    LET value == bencode_from_bytes(bytes)
    IN  IF value.tag # "Ok" \/ value.val.t # "dict" THEN Err
        ELSE IF ~HasField(value.val, KeyAnnounce, "bytes") THEN Err
        ELSE IF ~HasField(value.val, KeyInfo, "dict") THEN Err
        ELSE LET info == DictGet(value.val, KeyInfo).some
             IN  IF /\ HasField(info, KeyName, "bytes")
                    /\ HasField(info, KeyPieceLength, "int")
                    /\ HasField(info, KeyPieces, "bytes")
                    /\ HasField(info, KeyLength, "int")
                 THEN Ok([piece_length |-> DictGet(info, KeyPieceLength).some.v,
                          length |-> DictGet(info, KeyLength).some.v])
                 ELSE Err

\* SHA-1, taken to be free of collisions: a digest stands for the bytes hashed
Sha1(bytes) == [sha1_of |-> bytes]

\* Torrent::calculate_info_hash
calculate_info_hash(bytes) ==
    LET value == bencode_from_bytes(bytes)
    IN  IF value.tag # "Ok" THEN Err
        ELSE IF value.val.t # "dict" THEN Err
        ELSE LET info_value == DictGet(value.val, KeyInfo)
             IN  IF info_value = None THEN Err
                 ELSE Ok(Sha1(bencode_to_bytes(info_value.some)))

\* Torrent::load
load(bytes) ==
    LET mi == metainfo_from_bytes(bytes)
        hash == calculate_info_hash(bytes)
    IN  IF mi.tag # "Ok" THEN Err
        ELSE IF hash.tag # "Ok" THEN Err
        ELSE Ok([metainfo |-> mi.val, info_hash |-> hash.val])

\* ---- the .torrent files loaded ----

\* A byte string as it is written in a file
WriteString(b) == DecimalBytes(Len(b)) \o << 58 >> \o b

WriteInt(n) == << 105 >> \o DecimalBytes(n) \o << 101 >>

\* A dictionary whose entries are written in the order given
WriteDict(written_entries) == << 100 >> \o Flatten(written_entries) \o << 101 >>

\* The four entries of an info dictionary of `length` bytes, written out:
\* name "a", piece length 16384, an empty pieces string
InfoEntries(length) ==
    { WriteString(KeyLength) \o WriteInt(length),
      WriteString(KeyName) \o WriteString(<< 97 >>),
      WriteString(KeyPieceLength) \o WriteInt(16384),
      WriteString(KeyPieces) \o WriteString(<<>>) }

\* The info dictionaries with these entries in every order; one order is
\* the canonical one (keys ascending)
InfoDicts(length) ==
    { WriteDict(order) :
        order \in { o \in [1 .. 4 -> InfoEntries(length)] :
                       \A i, j \in 1 .. 4 : i # j => o[i] # o[j] } }

AnnounceEntry == WriteString(KeyAnnounce) \o WriteString(<< 117 >>)

\* Files that load, with announce before or after info, and files that do
\* not: no info key, an info that is no dictionary, a top level that is no
\* dictionary, a file cut short, an empty file
TorrentFileInputs ==
    { WriteDict(<< AnnounceEntry, WriteString(KeyInfo) \o info >>) :
          info \in InfoDicts(40000) \cup InfoDicts(32768) }
      \cup { WriteDict(<< WriteString(KeyInfo) \o info, AnnounceEntry >>) :
          info \in InfoDicts(40000) \cup InfoDicts(32768) }
      \cup { WriteDict(<< AnnounceEntry >>),
             WriteDict(<< AnnounceEntry, WriteString(KeyInfo) \o WriteInt(1) >>),
             WriteInt(1),
             << 100, 52, 58, 105 >>,
             <<>> }

LoadInit ==
    /\ CodecIdle /\ HasPieceIdle /\ PeerListIdle /\ SessionIdle /\ AnnounceIdle
    /\ TorrentIdle /\ PieceManagerIdle /\ MoreIdle
    /\ loadPc = "input"
    /\ torrent_bytes \in TorrentFileInputs
    /\ load_result = NoResult

\* Torrent::load(bytes, peer_id)
Load ==
    /\ loadPc = "input"
    /\ load_result' = load(torrent_bytes)
    /\ loadPc' = "done"
    /\ UNCHANGED <<torrent_bytes, nonLoadVars>>

LoadNext == Load

SpecLoad == LoadInit /\ [][LoadNext]_vars

\* The bytes of the value of the info key as they stand in the file: the
\* top-level entries are walked from `pos` on
RECURSIVE InfoSubrange(_, _)
InfoSubrange(bytes, pos) ==
    IF pos > Len(bytes) \/ bytes[pos] = 101 THEN <<>>
    ELSE LET key == ParseValue(bytes, pos)
             val == ParseValue(bytes, key.next)
         IN  IF key.val.v = KeyInfo
             THEN SubSeq(bytes, key.next, val.next - 1)
             ELSE InfoSubrange(bytes, val.next)

\* C16 (as claimed): for every file that loads, the info hash stored is the
\* SHA-1 of the bytes of the info dictionary exactly as they stand in the
\* file, whether or not they are in canonical form.
C16_InfoHashOfRawBytes ==
    (loadPc = "done" /\ load_result.tag = "Ok") =>
        load_result.val.info_hash = Sha1(InfoSubrange(torrent_bytes, 2))

\* ------------------------------------------------------------------------
\* PieceManager::run next to one peer session (piece_manager.rs:30-35)
\* ------------------------------------------------------------------------

\* One turn of `while let Some(result) = self.results.recv().await`: the
\* result is taken from the channel and its piece index is printed
PieceManagerRun ==
    /\ piece_tx # <<>>
    /\ pm_got' = Append(pm_got, Head(piece_tx))
    /\ piece_tx' = Tail(piece_tx)
    /\ UNCHANGED <<startVars, socket, wire, listVars, requesterPc, state, piece_work,
                   piece_queue, delivered, out_of_order, outstanding, peer_reorders,
                   codecVars, hpVars, plVars, annVars, torVars, loadVars, moreVars>>

\* A piece manager and a session are built on a queue that holds one piece
ManagedInit ==
    /\ SessionInit
    /\ Len(piece_queue) = 1
    /\ peer_reorders

ManagedNext == SessionNext \/ PieceManagerRun

\* The tasks of the runtime are scheduled fairly: start goes on while it can,
\* the requester loop keeps turning, the piece manager takes what is sent.
\* Nothing is assumed of the peer.
ManagedFairness ==
    /\ WF_vars(StartConnect \/ StartSendHandshake \/ StartReadHandshake
                 \/ StartSendInterested \/ StartSendUnchoke
                 \/ StartSpawnListener \/ StartSpawnRequester)
    /\ WF_vars(RequesterSnapshot \/ RequesterFetch \/ RequesterWork)
    /\ WF_vars(PieceManagerRun)

SpecSessionManaged == ManagedInit /\ [][ManagedNext]_vars /\ ManagedFairness

\* The piece manager has received an error response for the piece
ErrorReceived(r) ==
    \E i \in 1 .. Len(pm_got) :
        pm_got[i].piece_index = r.piece_index /\ pm_got[i].result.tag = "Err"

\* The session that holds the piece as its current piece has lost its
\* connection
HeldByDroppedSession(r) ==
    /\ piece_work # None
    /\ piece_work.index = r.piece_index
    /\ socket = "closed"

InWorkQueue(r) == \E i \in 1 .. Len(piece_queue) : piece_queue[i] = r

\* C20 (as claimed): a piece for which the piece manager received an error
\* response, or whose session dropped while it was the current piece, is
\* eventually back in the work queue.
C20_NoPieceLost ==
    \A r \in PieceRequestInputs :
        (ErrorReceived(r) \/ HeldByDroppedSession(r)) ~> InWorkQueue(r)

\* ------------------------------------------------------------------------
\* FileEntry::insert_path (files.rs)
\* ------------------------------------------------------------------------

\* Longest path inserted, and largest number of insert_path calls
MaxPathLen == 3
MaxInserts == 2

\* The segment names paths are made of
SegmentNames == { "a", "b" }

\* A FileEntry is a record of its name, its kind and its children; the
\* children of FileKind::File are the empty sequence.
File(name) == [name |-> name, kind |-> "File", children |-> <<>>]
Directory(name, children) == [name |-> name, kind |-> "Directory", children |-> children]

\* FileEntry::new
FileEntry_new(base_path) == Directory(base_path, <<>>)

\* A match that never takes the FileKind::File arm
NeverFileKind(entry) == FALSE

\* match &mut current.kind { FileKind::File => .. }
IsFileKind(entry) == entry.kind = "File"

\* A lookup that finds nothing
PositionNone(children, segment) == 0

\* children.iter().position(|e| e.name == *segment): the first position of
\* that name, 0 for None
Position(children, segment) ==
    LET at == { k \in 1 .. Len(children) : children[k].name = segment }
    IN  IF at = {} THEN 0 ELSE CHOOSE k \in at : \A j \in at : k <= j

\* The loop of insert_path from segment i on, `current` being the node the
\* traversal is positioned on: whether it ended in Ok, and the node as the
\* loop left it
RECURSIVE InsertFrom(_, _, _)
InsertFrom(current, segments, i) ==
    IF i > Len(segments) THEN [ok |-> TRUE, entry |-> current]
    ELSE IF IsFileKind(current) THEN [ok |-> FALSE, entry |-> current]
    ELSE LET segment == segments[i]
             pos == Position(current.children, segment)
         IN  IF pos # 0
             THEN LET r == InsertFrom(current.children[pos], segments, i + 1)
                  IN  [ok |-> r.ok,
                       entry |-> [current EXCEPT !.children[pos] = r.entry]]
             ELSE LET is_file == (i = Len(segments))
                      new_entry == IF is_file THEN File(segment)
                                   ELSE Directory(segment, <<>>)
                      r == InsertFrom(new_entry, segments, i + 1)
                  IN  [ok |-> r.ok,
                       entry |-> [current EXCEPT !.children = Append(@, r.entry)]]

\* FileEntry::insert_path
insert_path(entry, segments) == InsertFrom(entry, segments, 1)

\* The paths handed to insert_path
PathInputs == SeqsUpTo(SegmentNames, MaxPathLen)

\* get_file_tree: let mut root = files::FileEntry::new(".")
FilesInit ==
    /\ CodecIdle /\ HasPieceIdle /\ PeerListIdle /\ SessionIdle
    /\ AnnounceIdle /\ TorrentIdle /\ LoadIdle /\ PieceManagerIdle
    /\ QueryIdle /\ heard = None /\ LocksIdle
    /\ root = FileEntry_new(".")
    /\ path = <<>>
    /\ insert_result = NoResult
    /\ inserts = 0

\* root.insert_path(&segments)
InsertPath ==
    /\ root # None
    /\ inserts < MaxInserts
    /\ \E segments \in PathInputs :
          LET r == insert_path(root, segments)
          IN  /\ path' = segments
              /\ root' = r.entry
              /\ insert_result' = IF r.ok THEN Ok("unit") ELSE [tag |-> "Err"]
    /\ inserts' = inserts + 1
    /\ UNCHANGED <<codecVars, hpVars, plVars, sessVars, annVars, torVars, loadVars,
                   pm_got, queryVars, heard, lockVars>>

FilesNext == InsertPath

SpecFiles == FilesInit /\ [][FilesNext]_vars

\* The node of a tree at a path below its root, None if there is none
RECURSIVE NodeAt(_, _)
NodeAt(entry, segments) ==
    IF segments = <<>> THEN entry
    ELSE LET at == { k \in 1 .. Len(entry.children) :
                        entry.children[k].name = Head(segments) }
         IN  IF at = {} THEN None
             ELSE NodeAt(entry.children[CHOOSE k \in at : \A j \in at : k <= j],
                         Tail(segments))

\* The paths a node may lie at, one level deeper than the paths inserted
TreePaths == SeqsUpTo(SegmentNames, MaxPathLen + 1)

\* The traversal of `segments` comes to stand on a File node while a
\* segment is still to be processed
StandsOnFile(entry, segments) ==
    \E k \in 0 .. Len(segments) - 1 :
        LET node == NodeAt(entry, SubSeq(segments, 1, k))
        IN  node # None /\ node.kind = "File"

\* One call of insert_path
InsertStep == inserts' = inserts + 1

\* C21: insert_path returns an error whenever the traversal stands on a File
\* node with a segment still to process (and only then), and leaves the tree
\* as it was; a File node never has children and stays a File.
C21_InsertOntoFileFails ==
    /\ [](root # None =>
            \A q \in TreePaths :
                LET node == NodeAt(root, q)
                IN  (node # None /\ node.kind = "File") => node.children = <<>>)
    /\ [][InsertStep =>
            /\ StandsOnFile(root, path') <=> insert_result'.tag = "Err"
            /\ StandsOnFile(root, path') => root' = root
            /\ \A q \in TreePaths :
                  LET node == NodeAt(root, q)
                  IN  (node # None /\ node.kind = "File") =>
                          NodeAt(root', q) = File(node.name)]_vars

\* C21 witness: [a] was inserted as a file and the insertion of [a, b]
\* after it returned an error.
C21_Witness ==
    /\ root # None
    /\ insert_result.tag = "Err"
    /\ path = << "a", "b" >>
    /\ NodeAt(root, << "a" >>) = File("a")

\* The names of the children of a node, in order
ChildNames(node) == [k \in 1 .. Len(node.children) |-> node.children[k].name]

\* C22: no directory has two children of the same name; a successful
\* insert_path creates every missing final segment as a File and every
\* missing non-final segment as a Directory, keeps every node that existed
\* with its kind, and appends new children after the existing ones.
C22_SharedPrefixes ==
    /\ [](root # None =>
            \A q \in TreePaths :
                LET node == NodeAt(root, q)
                IN  node # None =>
                        \A i, j \in 1 .. Len(node.children) :
                            node.children[i].name = node.children[j].name => i = j)
    /\ [][(InsertStep /\ insert_result'.tag = "Ok") =>
            /\ \A k \in 1 .. Len(path') :
                  LET prefix == SubSeq(path', 1, k)
                  IN  /\ NodeAt(root', prefix) # None
                      /\ NodeAt(root, prefix) = None =>
                            NodeAt(root', prefix).kind =
                                (IF k = Len(path') THEN "File" ELSE "Directory")
            /\ \A q \in TreePaths :
                  LET old == NodeAt(root, q)
                      new == NodeAt(root', q)
                  IN  old # None =>
                        /\ new # None
                        /\ new.kind = old.kind
                        /\ Len(new.children) >= Len(old.children)
                        /\ SubSeq(ChildNames(new), 1, Len(old.children)) = ChildNames(old)]_vars

\* C22 witness: the first two paths of test_insert_path_builds_tree, in two
\* names: [a, a] and [a, b, a] were inserted, and the root holds the one
\* directory a, which holds the file a and the directory b in that order.
C22_Witness ==
    /\ root # None
    /\ inserts = 2
    /\ insert_result.tag = "Ok"
    /\ ChildNames(root) = << "a" >>
    /\ NodeAt(root, << "a" >>).kind = "Directory"
    /\ ChildNames(NodeAt(root, << "a" >>)) = << "a", "b" >>
    /\ NodeAt(root, << "a", "a" >>) = File("a")
    /\ NodeAt(root, << "a", "b" >>).kind = "Directory"
    /\ NodeAt(root, << "a", "b", "a" >>) = File("a")

\* ------------------------------------------------------------------------
\* peer_listener on an established session (peer_session.rs:243-294)
\* ------------------------------------------------------------------------

\* What the listener has processed so far: whether any message, the latest
\* of Choke/Unchoke, the latest of Interested/NotInterested, the payload of
\* the latest Bitfield, the pieces announced by Have since that Bitfield,
\* whether a Bitfield came after another message, and whether a Piece came
\* while the block channel was full
NothingHeard ==
    [any |-> FALSE, choke |-> "none", interest |-> "none", bitfield |-> None,
     have |-> {}, late_bitfield |-> FALSE, dropped |-> FALSE]

\* The same record after `msg`, `full` telling whether the block channel
\* was full when msg arrived
Note(h, msg, full) ==
    [any |-> TRUE,
     choke |-> IF msg.type \in { "Choke", "Unchoke" } THEN msg.type ELSE h.choke,
     interest |-> IF msg.type \in { "Interested", "NotInterested" } THEN msg.type
                  ELSE h.interest,
     bitfield |-> IF msg.type = "Bitfield" THEN Some(msg.bitfield) ELSE h.bitfield,
     have |-> IF msg.type = "Have" THEN h.have \cup { msg.index }
              ELSE IF msg.type = "Bitfield" THEN {} ELSE h.have,
     late_bitfield |-> (h.late_bitfield \/ (msg.type = "Bitfield" /\ h.any)),
     dropped |-> (h.dropped \/ (msg.type = "Piece" /\ full))]

\* The messages a peer sends that the requester did not ask for: every
\* message type, a Piece that answers no Request among them
ListenerMessages ==
    { Choke, Unchoke, Interested, NotInterested, KeepAlive, Have(1),
      Bitfield(<<128>>), Bitfield(<<240>>), Request(0, 0, 16384),
      Cancel(0, 0, 16384), Port(6881),
      Piece(0, 0, ContentSegment(0, 0, 16384)) }

\* start has returned Ok: the handshake is done, Interested and Unchoke are
\* written, listener and requester are spawned on an empty work queue
ListenerInit ==
    /\ CodecIdle /\ HasPieceIdle /\ PeerListIdle
    /\ AnnounceIdle /\ TorrentIdle /\ LoadIdle /\ PieceManagerIdle
    /\ FilesIdle /\ QueryIdle /\ LocksIdle
    /\ startPc = "returned"
    /\ start_result = Ok("unit")
    /\ socket = "open"
    /\ handshake_response = HandshakeBytes(info_hash, MOCK_PEER_ID)
    /\ wire = HandshakeBytes(info_hash, peer_id) \o send_interested_bytes
                \o send_unchoke_bytes
    /\ peer_state = NewPeerState
    /\ listenerPc = "running"
    /\ block_rx = <<>>
    /\ requesterPc = "snapshot"
    /\ state = None
    /\ piece_work = None
    /\ piece_queue = <<>>
    /\ piece_tx = <<>>
    /\ outstanding = {}
    /\ peer_reorders = FALSE
    /\ delivered = {}
    /\ out_of_order = FALSE
    /\ heard = NothingHeard

\* peer_listener, one loop turn on a message read_message decoded: the match
ListenerTurn ==
    /\ listenerPc = "running"
    /\ socket = "open"
    /\ heard # None
    /\ \E msg \in ListenerMessages :
          /\ ListenerHandle(msg)
          /\ heard' = Note(heard, msg, Len(block_rx) >= BlockChannelCapacity)
    /\ UNCHANGED <<startVars, socket, wire, reqVars, outstanding, peer_reorders,
                   codecVars, hpVars, plVars, annVars, torVars, loadVars, pm_got,
                   fileVars, queryVars, lockVars>>

ListenerNext == ListenerTurn \/ PeerClose

SpecListener == ListenerInit /\ [][ListenerNext]_vars

\* C26: after any sequence of messages the listener processed, is_choked
\* (the peer chokes us) is true iff the latest Choke/Unchoke was Choke or
\* there was none, is_peer_interested is true iff the latest
\* Interested/NotInterested was Interested, and the bitfield is the payload
\* of the latest Bitfield, empty if there was none; no other message
\* changes the three.
C26_PeerStateFollowsMessages ==
    heard # None =>
        /\ peer_state.is_choked = (heard.choke # "Unchoke")
        /\ peer_state.is_peer_interested = (heard.interest = "Interested")
        /\ peer_state.bitfield =
              (IF heard.bitfield = None THEN <<>> ELSE heard.bitfield.some)

\* C26 witness: the listener processed Unchoke, Interested and the Bitfield
\* 0xF0, and other messages as well.
C26_Witness ==
    /\ heard # None
    /\ heard.choke = "Unchoke"
    /\ heard.interest = "Interested"
    /\ heard.bitfield = Some(<<240>>)
    /\ heard.have = { 1 }
    /\ block_rx # <<>>
    /\ ~peer_state.is_choked

\* C27 (as claimed): a piece the peer announced by Have since the latest
\* Bitfield is a piece has_piece answers true for.
C27_HaveSetsBit ==
    heard # None =>
        \A i \in heard.have : has_piece(peer_state.bitfield, i) = Ok(TRUE)

\* C29 (as claimed): the turn that processes a Bitfield after another
\* message stops the listener and leaves the bitfield as it was.
C29_LateBitfieldIsProtocolError ==
    [][(heard # None /\ heard' # None /\ heard'.late_bitfield /\ ~heard.late_bitfield)
         => /\ listenerPc' # "running"
            /\ peer_state'.bitfield = peer_state.bitfield]_vars

\* C30 (as claimed): the block channel never holds more than 100 blocks, and
\* the turn that processes a Piece while it is full leaves the channel as
\* it is and the listener running.
C30_FullChannelDropsAndContinues ==
    /\ [](Len(block_rx) <= BlockChannelCapacity)
    /\ [][(heard # None /\ heard' # None /\ heard'.dropped /\ ~heard.dropped)
            => /\ block_rx' = block_rx
               /\ listenerPc' = "running"]_vars

\* The session has reported ConnectionLost for the piece of that index
ConnectionLostReported(index) ==
    \E response \in { piece_tx[k] : k \in 1 .. Len(piece_tx) }
                      \cup { pm_got[k] : k \in 1 .. Len(pm_got) } :
        /\ response.piece_index = index
        /\ response.result = PieceErr("ConnectionLost")

\* C28 (as claimed): once the listener has failed to read or decode a frame,
\* the requester stops too, and the piece the session is working on is
\* reported with ConnectionLost.
C28_ListenerFailureClosesSession ==
    (listenerPc = "panicked") ~>
        /\ requesterPc \notin { "snapshot", "fetch", "work" }
        /\ piece_work # None => ConnectionLostReported(piece_work.index)

\* ------------------------------------------------------------------------
\* The requester loop, claim by claim
\* ------------------------------------------------------------------------

\* The bit of the piece is not set in the bitfield: it is zero, or the
\* bitfield is too short to hold it
BitNotSet(bitfield, piece_index) == has_piece(bitfield, piece_index) # Ok(TRUE)

\* The step is the pop_front of the requester
RequesterPops == requesterPc = "fetch" /\ piece_queue' # piece_queue

\* The step is an iteration of the requester from its take() to its sleep
RequesterIterates == requesterPc = "work" /\ requesterPc' = "snapshot"

\* C31 (as claimed): when the requester pops a piece whose bit is not set
\* in the bitfield of its snapshot, the bitfield being empty or too short
\* included, it sends one PieceUnavailable for that index, adopts nothing
\* and keeps looping.
C31_UnavailableReported ==
    [][(RequesterPops /\ BitNotSet(state.bitfield, Head(piece_queue).piece_index))
         => /\ piece_tx' = Append(piece_tx,
                              [piece_index |-> Head(piece_queue).piece_index,
                               result |-> PieceErr("PieceUnavailable")])
            /\ piece_work' = None
            /\ requesterPc' \in { "snapshot", "fetch", "work" }]_vars

\* The positions of the blocks of the current piece that a step moves from
\* one status to another
Moved(from, to) ==
    IF piece_work = None \/ piece_work' = None THEN {}
    ELSE { k \in 1 .. Len(piece_work.blocks) :
             /\ piece_work.blocks[k].status = from
             /\ piece_work'.blocks[k].status = to }

\* C32: an iteration whose snapshot says choked writes nothing to the peer
\* and moves no block from Empty to InProgress; whatever is written after
\* the start sequence is written under an unchoked snapshot; a snapshot is
\* a copy of the peer state of that moment, and the peer state is choked
\* until the listener has processed an Unchoke.
C32_ChokedRequestsNothing ==
    /\ [][(RequesterIterates /\ state.is_choked)
            => /\ wire' = wire
               /\ outstanding' = outstanding
               /\ Moved("Empty", "InProgress") = {}]_vars
    /\ [][(requesterPc # "none" /\ wire' # wire) => ~state.is_choked]_vars
    /\ [][state' # state => state' = peer_state]_vars
    /\ [][(peer_state.is_choked /\ ~peer_state'.is_choked)
            => listenerPc = "running" /\ requesterPc' = requesterPc]_vars
    /\ [](listenerPc = "none" => peer_state.is_choked)

\* C32 witness: the requester holds a piece under a choked snapshot, has gone
\* through an iteration, and every block is still Empty with nothing asked.
C32_Witness ==
    /\ piece_work # None
    /\ piece_work.blocks # <<>>
    /\ state.is_choked
    /\ requesterPc = "snapshot"
    /\ outstanding = {}
    /\ \A k \in 1 .. Len(piece_work.blocks) : piece_work.blocks[k].status = "Empty"

\* C33 (as claimed): a block moves from Empty to InProgress only in a step
\* that writes its Request to the peer, from InProgress to Full only on a
\* block response at its offset, never from Empty to Full, and a Full block
\* keeps its status and data.
C33_BlockStatusTransitions ==
    [][(piece_work # None /\ piece_work' # None)
         => \A k \in 1 .. Len(piece_work.blocks) :
              LET old == piece_work.blocks[k]
                  new == piece_work'.blocks[k]
              IN  /\ (old.status = "Empty" /\ new.status = "InProgress")
                        => LET req == Request(piece_work.index, old.offset, old.length)
                           IN  /\ req \in outstanding' \ outstanding
                               /\ wire' # wire
                  /\ (old.status = "InProgress" /\ new.status = "Full")
                        => \E i \in 1 .. Len(block_rx) : block_rx[i].begin = old.offset
                  /\ ~(old.status = "Empty" /\ new.status = "Full")
                  /\ old.status = "InProgress" => new.status # "Empty"
                  /\ old.status = "Full" => new = old]_vars

\* The bytes of the blocks of a piece, in block order
AssembledBytes(work) == Flatten([k \in 1 .. Len(work.blocks) |-> work.blocks[k].data])

\* Every block of the piece is Full
AllFull(work) == \A k \in 1 .. Len(work.blocks) : work.blocks[k].status = "Full"

\* The response the claim expects for a piece whose blocks are all Full
ExpectedResponse(work) ==
    [piece_index |-> work.index,
     result |-> IF DataLen(AssembledBytes(work)) = work.length
                THEN Ok(AssembledBytes(work))
                ELSE PieceErr("InvalidData")]

\* The responses of the result channel that carry a piece or InvalidData
Submitted(index) ==
    { k \in 1 .. Len(piece_tx) :
        /\ piece_tx[k].piece_index = index
        /\ piece_tx[k].result # PieceErr("PieceUnavailable") }

\* C34: the iteration that finds every block of the current piece Full sends
\* the one response for it, Ok with the assembled bytes when their length
\* is the piece length and InvalidData otherwise, and leaves the requester
\* without a current piece; no other step sends a response that is not
\* PieceUnavailable, and the result channel never holds two for one index.
C34_CompletePieceSubmittedOnce ==
    /\ [][(RequesterIterates /\ piece_work # None /\ AllFull(piece_work))
            => /\ piece_tx' = Append(piece_tx, ExpectedResponse(piece_work))
               /\ piece_work' = None]_vars
    /\ [][(piece_tx' # piece_tx
             /\ piece_tx'[Len(piece_tx')].result # PieceErr("PieceUnavailable"))
            => /\ RequesterIterates
               /\ piece_work # None
               /\ AllFull(piece_work)
               /\ piece_tx' = Append(piece_tx, ExpectedResponse(piece_work))]_vars
    /\ [](\A index \in 0 .. 3 : Cardinality(Submitted(index)) <= 1)

\* C34 witness: the three-block piece was submitted as Ok with its 40 000
\* bytes and the requester holds no piece.
C34_Witness ==
    /\ piece_work = None
    /\ requesterPc = "snapshot"
    /\ piece_tx # <<>>
    /\ piece_tx[Len(piece_tx)].piece_index = 0
    /\ piece_tx[Len(piece_tx)].result.tag = "Ok"
    /\ DataLen(piece_tx[Len(piece_tx)].result.val) = 40000

\* C38 (as claimed): once the listener has terminated, the requester pops
\* no piece request and writes no Request.
C38_RequesterStopsWithListener ==
    [][(listenerPc \in { "panicked", "returned" })
         => /\ piece_queue' = piece_queue
            /\ wire' = wire]_vars

\* ------------------------------------------------------------------------
\* A peer that sends blocks nobody asked for
\* ------------------------------------------------------------------------

\* Most unrequested blocks the peer has in the block channel at a time
MaxUnrequested == 1

\* The Piece messages of such a peer: the first block of a queued piece
UnrequestedBlocks ==
    { Piece(r.piece_index, 0,
            ContentSegment(r.piece_index, 0, Min(16384, r.length_bytes))) :
        r \in { q \in PieceRequestInputs : q.length_bytes > 0 } }

\* peer_listener, one loop turn on a Piece frame the peer sends without a
\* Request for it (a duplicate, or a block of another piece)
ListenerRecvUnrequested ==
    /\ listenerPc = "running"
    /\ socket = "open"
    /\ Len(block_rx) < MaxUnrequested
    /\ \E msg \in UnrequestedBlocks : ListenerHandle(msg)
    /\ UNCHANGED <<startVars, socket, wire, reqVars, outstanding, restVars>>

\* What start has written when it returns: handshake, Interested, Unchoke
StartBytes ==
    HandshakeBytes(info_hash, peer_id) \o send_interested_bytes \o send_unchoke_bytes

\* The peer state after the Bitfield of a peer that has the pieces 0 to 4,
\* and its Unchoke
ServingPeerState ==
    ApplyToState(ApplyToState(NewPeerState, Bitfield(<<248>>)), Unchoke)

\* The session once start has returned and the listener has processed the
\* peer's Bitfield, which has the pieces 0 to 4, and its Unchoke
ServingSession(queue) ==
    /\ CodecIdle /\ HasPieceIdle /\ PeerListIdle /\ ControllerIdle
    /\ startPc = "returned"
    /\ start_result = Ok("unit")
    /\ socket = "open"
    /\ handshake_response = HandshakeBytes(info_hash, MOCK_PEER_ID)
    /\ wire = StartBytes
    /\ peer_state = ServingPeerState
    /\ listenerPc = "running"
    /\ block_rx = <<>>
    /\ requesterPc = "snapshot"
    /\ state = None
    /\ piece_work = None
    /\ piece_queue = queue
    /\ piece_tx = <<>>
    /\ outstanding = {}
    /\ delivered = {}
    /\ out_of_order = FALSE

\* The queue holds the one-block piece and then the three-block piece, or
\* the other way round
UnrequestedInit ==
    /\ \E q \in QueueInputs :
          /\ Len(q) = 2
          /\ \A i \in 1 .. 2 : q[i].length_bytes > 0
          /\ ServingSession(q)
    /\ peer_reorders \in BOOLEAN

UnrequestedNext ==
    \/ ListenerRecvPiece
    \/ ListenerRecvUnrequested
    \/ PeerClose
    \/ RequesterSnapshot
    \/ RequesterFetch
    \/ RequesterWork

SpecUnrequested == UnrequestedInit /\ [][UnrequestedNext]_vars

\* C39 (as claimed): a block of the current piece becomes Full only on a
\* block response of the current piece's index at the block's offset, and
\* takes the data of such a response.
C39_ResponseOfCurrentPieceOnly ==
    [][(RequesterIterates /\ piece_work # None /\ piece_work' # None)
         => \A k \in 1 .. Len(piece_work.blocks) :
              (piece_work.blocks[k].status # "Full"
                 /\ piece_work'.blocks[k].status = "Full")
              => \E i \in 1 .. Len(block_rx) :
                    /\ block_rx[i].index = piece_work.index
                    /\ block_rx[i].begin = piece_work.blocks[k].offset
                    /\ block_rx[i].block = piece_work'.blocks[k].data]_vars

\* ------------------------------------------------------------------------
\* The reconciler and the sessions it has started
\* ------------------------------------------------------------------------

\* C35 (as claimed): a peer whose session is running, its start returned
\* and its listener and requester at work, is neither taken out of the
\* active-peers map nor given a new session.
C35_OneLiveSessionPerPeer ==
    [][\A k \in 1 .. Len(sessions) : \A p \in DOMAIN sessions[k] :
          sessions[k][p] = "established"
            => /\ sessions'[k][p] \in { "established", "broken" }
               /\ p \in active_peers[k] => p \in active_peers'[k]]_vars

\* The place of a mutex in the order tracker -> active-peers -> work queue
LockRank(mutex) ==
    CASE mutex = "tracker" -> 1
      [] mutex = "active_peers" -> 2
      [] mutex = "work_queue" -> 3

\* The mutexes were taken in that order
InLockOrder(held) ==
    \A i, j \in 1 .. Len(held) : i < j => LockRank(held[i]) < LockRank(held[j])

\* C36 (as claimed): whatever mutexes a task holds at once it took in the
\* order tracker -> active-peers -> work queue.  The announce task holds
\* the tracker mutex alone and a requester the work queue alone; the
\* reconciler is the task that holds two.
C36_LockOrder ==
    \A k \in 1 .. Len(reconciler_locks) : InLockOrder(reconciler_locks[k].held)

\* ------------------------------------------------------------------------
\* The requesters of two sessions on one work queue and one result channel
\* (peer_session.rs:159-180, 239; piece_manager.rs:30-35)
\* ------------------------------------------------------------------------

\* Number of piece requests in the shared work queue
QueuedPieces == 102

\* The requests of the pieces 0 .. QueuedPieces - 1, each of one block
SharedQueue ==
    [i \in 1 .. QueuedPieces |-> [piece_index |-> i - 1, length_bytes |-> 16384]]

\* A bitfield of 13 bytes in which no bit is set, and one with bit 0 alone
NoPieces == [i \in 1 .. 13 |-> 0]

FirstPieceOnly == [i \in 1 .. 13 |-> IF i = 1 THEN 128 ELSE 0]

\* A requester at the top of its loop with the bitfield of its peer
RequesterAtTop(bitfield) ==
    [pc |-> "top", bitfield |-> bitfield, sending |-> None]

nonQueueVars ==
    <<codecVars, hpVars, plVars, startVars, socket, wire, listVars, requesterPc,
      state, piece_work, delivered, out_of_order, outstanding, peer_reorders,
      annVars, torVars, loadVars, fileVars, queryVars, heard>>

\* Two sessions have been started on the same queue and result channel; the
\* peer of the first has no piece, the peer of the second none or piece 0
RequestersInit ==
    /\ CodecIdle /\ HasPieceIdle /\ PeerListIdle /\ AnnounceIdle /\ TorrentIdle
    /\ LoadIdle /\ PieceManagerIdle /\ FilesIdle /\ QueryIdle /\ heard = None
    /\ startPc = "idle" /\ start_result = NoResult /\ socket = "none"
    /\ handshake_response = <<>> /\ wire = <<>>
    /\ peer_state = None /\ listenerPc = "none" /\ block_rx = <<>>
    /\ requesterPc = "none" /\ state = None /\ piece_work = None
    /\ outstanding = {} /\ peer_reorders = FALSE /\ delivered = {}
    /\ out_of_order = FALSE
    /\ piece_queue = SharedQueue
    /\ piece_tx = <<>>
    /\ queue_lock = 0
    /\ \E second \in { NoPieces, FirstPieceOnly } :
          requesters = << RequesterAtTop(NoPieces), RequesterAtTop(second) >>

\* if piece_work.is_none() { let mut piece_request_queue = piece_queue.lock().await
RequesterLockQueue(r) ==
    /\ requesters[r].pc = "top"
    /\ queue_lock = 0
    /\ queue_lock' = r
    /\ requesters' = [requesters EXCEPT ![r].pc = "locked"]
    /\ UNCHANGED <<piece_queue, piece_tx, pm_got, nonQueueVars>>

\* pop_front and has_piece under the guard: an empty queue or an adopted
\* piece ends the block and drops the guard, a piece the peer lacks goes on
\* to the send with the guard alive
RequesterPop(r) ==
    /\ requesters[r].pc = "locked"
    /\ IF piece_queue = <<>>
       THEN /\ queue_lock' = 0
            /\ requesters' = [requesters EXCEPT ![r].pc = "sleep"]
            /\ UNCHANGED piece_queue
       ELSE LET piece_req == Head(piece_queue)
                has == has_piece(requesters[r].bitfield, piece_req.piece_index)
            IN  /\ piece_queue' = Tail(piece_queue)
                /\ IF has = Panic
                   THEN /\ queue_lock' = 0
                        /\ requesters' = [requesters EXCEPT ![r].pc = "panicked"]
                   ELSE IF has.val
                   THEN /\ queue_lock' = 0
                        /\ requesters' = [requesters EXCEPT ![r].pc = "working"]
                   ELSE /\ UNCHANGED queue_lock
                        /\ requesters' = [requesters EXCEPT
                               ![r].pc = "sending",
                               ![r].sending = Some(piece_req.piece_index)]
    /\ UNCHANGED <<piece_tx, pm_got, nonQueueVars>>

\* piece_tx.send(PieceResponse { .. PieceUnavailable }).await?: completes
\* when the channel has room; the block ends after it and drops the guard
RequesterSendUnavailable(r) ==
    /\ requesters[r].pc = "sending"
    /\ Len(piece_tx) < ResultChannelCapacity
    /\ piece_tx' = Append(piece_tx,
          [piece_index |-> requesters[r].sending.some,
           result |-> PieceErr("PieceUnavailable")])
    /\ queue_lock' = 0
    /\ requesters' = [requesters EXCEPT ![r].pc = "sleep", ![r].sending = None]
    /\ UNCHANGED <<piece_queue, pm_got, nonQueueVars>>

\* tokio::time::sleep(Duration::from_millis(100)).await is over
RequesterSleepDone(r) ==
    /\ requesters[r].pc = "sleep"
    /\ requesters' = [requesters EXCEPT ![r].pc = "top"]
    /\ UNCHANGED <<queue_lock, piece_queue, piece_tx, pm_got, nonQueueVars>>

RequestersNext ==
    \/ \E r \in 1 .. Len(requesters) : RequesterLockQueue(r)
    \/ \E r \in 1 .. Len(requesters) : RequesterPop(r)
    \/ \E r \in 1 .. Len(requesters) : RequesterSendUnavailable(r)
    \/ \E r \in 1 .. Len(requesters) : RequesterSleepDone(r)
    \/ PieceManagerRun

SpecRequesters == RequestersInit /\ [][RequestersNext]_vars

\* C37 (as claimed): while the result channel is full no requester that is
\* in its send holds the work-queue mutex.
C37_NoSendUnderQueueLock ==
    Len(piece_tx) >= ResultChannelCapacity
      => \A r \in 1 .. Len(requesters) :
            ~(queue_lock = r /\ requesters[r].pc = "sending")

\* ------------------------------------------------------------------------
\* A session with a peer that cooperates, and a piece manager
\* ------------------------------------------------------------------------

\* A piece of 101 blocks, one more than the block channel holds
HugePieceRequest == [piece_index |-> 4, length_bytes |-> 100 * 16384 + 1]

\* The blocks of a piece of L bytes once all were asked for and none has
\* been answered
RequestedBlocks(L) ==
    [k \in 1 .. BlockCount(L) |->
        [offset |-> 16384 * (k - 1), length |-> BlockLength(L, k),
         status |-> "InProgress", data |-> <<>>]]

\* The Request for block k of the piece
RequestFor(value, k) ==
    Request(value.piece_index, 16384 * (k - 1), BlockLength(value.length_bytes, k))

\* The Request frames for all blocks of the piece, 17 bytes each, in block
\* order
RequestFrames(value) ==
    [i \in 1 .. 17 * BlockCount(value.length_bytes) |->
        to_bytes(RequestFor(value, ((i - 1) \div 17) + 1))[((i - 1) % 17) + 1]]

\* The session has adopted the 101-block piece from a queue that held it
\* alone, and in 21 iterations, five blocks at a time, has asked for all its
\* blocks; the peer has not sent the first answer yet
AwaitingAnswers ==
    /\ CodecIdle /\ HasPieceIdle /\ PeerListIdle /\ ControllerIdle
    /\ startPc = "returned"
    /\ start_result = Ok("unit")
    /\ socket = "open"
    /\ handshake_response = HandshakeBytes(info_hash, MOCK_PEER_ID)
    /\ wire = StartBytes \o RequestFrames(HugePieceRequest)
    /\ peer_state = ServingPeerState
    /\ listenerPc = "running"
    /\ block_rx = <<>>
    /\ requesterPc = "snapshot"
    /\ state = ServingPeerState
    /\ piece_work = [index |-> HugePieceRequest.piece_index,
                     length |-> HugePieceRequest.length_bytes,
                     block_size |-> BLOCK_SIZE,
                     blocks |-> RequestedBlocks(HugePieceRequest.length_bytes)]
    /\ piece_queue = <<>>
    /\ piece_tx = <<>>
    /\ outstanding = { RequestFor(HugePieceRequest, k) :
                         k \in 1 .. BlockCount(HugePieceRequest.length_bytes) }
    /\ delivered = {}
    /\ out_of_order = FALSE

\* The session is past Bitfield and Unchoke and its queue holds one piece
\* that the peer has; or it is further on with the 101-block piece
CooperativeInit ==
    \/ /\ \E r \in PieceRequestInputs \cup { LargePieceRequest } : ServingSession(<< r >>)
       /\ peer_reorders \in BOOLEAN
    \/ /\ AwaitingAnswers
       /\ peer_reorders = FALSE

\* The peer sends nothing but the Piece messages that answer the Requests,
\* and keeps the connection open
CooperativeNext ==
    \/ RequesterSnapshot
    \/ RequesterFetch
    \/ RequesterWork
    \/ ListenerRecvPiece
    \/ PieceManagerRun

\* RequesterWork can be taken: the requester is at its take(), and a piece
\* that is complete finds room in the result channel
RequesterWorkEnabled ==
    /\ requesterPc = "work"
    /\ (piece_work # None /\ is_complete(piece_work))
          => Len(piece_tx) < ResultChannelCapacity

\* The requester and the listener are scheduled fairly, the peer answers
\* every Request it holds, and the piece manager takes every response.
\* Every step of RequesterWork leaves the take(), so its weak fairness is
\* that it is disabled again and again
CooperativeFairness ==
    /\ WF_vars(RequesterSnapshot)
    /\ WF_vars(RequesterFetch)
    /\ []<>(~RequesterWorkEnabled)
    /\ WF_vars(ListenerRecvPiece)
    /\ WF_vars(PieceManagerRun)

SpecCooperative == CooperativeInit /\ [][CooperativeNext]_vars /\ CooperativeFairness

\* The requester holds the piece of that index
Adopted(index) == piece_work # None /\ piece_work.index = index

\* An Ok response for the piece was sent on the result channel
OkSent(index) ==
    \E response \in { piece_tx[k] : k \in 1 .. Len(piece_tx) }
                      \cup { pm_got[k] : k \in 1 .. Len(pm_got) } :
        /\ response.piece_index = index
        /\ response.result.tag = "Ok"

\* C40 (as claimed): with a peer that has the piece, stays unchoking and
\* answers every Request, and a piece manager that drains the result
\* channel, a piece the requester adopted is in the end sent as Ok.
C40_AdoptedPieceCompletes ==
    \A index \in 0 .. 4 : Adopted(index) ~> OkSent(index)

====
